---- MODULE Spec2Model ----
(***************************************************************************)
(* The workflow state machine of the AI fashion stylist (the App component *)
(* and its reducer): the reducer as a pure operator, one action per event  *)
(* handler of the component (guarded by the conditions under which the     *)
(* view renders and enables its control), and one action per resolution of *)
(* a pending gateway call.                                                 *)
(***************************************************************************)
EXTENDS Integers, Sequences, FiniteSets, Bags, TLC

VARIABLES
    state,               \* the reducer's AppState
    generalSuggestions,  \* useState: per person, the general suggestions or Null
    outfitSuggestions,   \* useState: per person, the outfit cell of each season and style
    isRefreshingSuggestions,  \* useState: the hairstyle and the pose refresh in progress
    pending,             \* bag of the gateway calls issued and not yet settled
    aux,                 \* number of optional edits made so far (bounded)
    uncaught,            \* TRUE once a handler's promise was rejected with no catch
    steps,               \* number of actions dispatched straight to the reducer (bounded)
    op,                  \* the gateway operation in progress (geminiService)
    store,               \* sessionStorage: the trend-ideas cache entry, or absent
    now,                 \* the wall clock (Date.now()), in ms
    throttle,            \* throttleTimeoutRef: the time its timer was set, or -1
    uploaders,           \* per ImageUploader: the worker's handler and its files
    arg,                 \* the input of a pure function under check
    ret                  \* its output

\* the variables outside the App component's workflow
svcVars == <<op, store, now, throttle, uploaders, arg, ret>>

\* the suggestion panel's state next to generalSuggestions
panelVars == <<outfitSuggestions, isRefreshingSuggestions>>

vars == <<state, generalSuggestions, panelVars, pending, aux, uncaught, steps, svcVars>>

-----------------------------------------------------------------------------
(* Bounds of the model *)

\* images a user puts into one person slot or the style-reference slot
MaxUploads == 1
\* gateway calls that may be unsettled at the same time
MaxPending == 2
\* entries the history of a session may reach: no further image result arrives
MaxHistory == 1
\* optional edits (descriptor fields, negative prompt, composition, references,
\* prompt expansion, forced trend refresh) in one session
MaxAux == 1
\* actions dispatched straight to the reducer in one run of SpecReducer
MaxSteps == 4

-----------------------------------------------------------------------------
(* Values *)

\* null of a record-valued field / of a string-valued field
Null == [isNull |-> TRUE]
NullStr == "null"

PersonIds == {1, 2}

\* an uploaded, normalized photo (UploadedImageInfo)
Photo == [base64 |-> "photo", mimeType |-> "image/webp"]
RefPhoto == [base64 |-> "ref", mimeType |-> "image/webp"]

\* a data URI `data:<mime>;base64,<data>`, kept as its two variable parts
DataUri(mime, data) == [mime |-> mime, data |-> data]

\* what editImage returns: a result with an image, or one with a text only
EditResults ==
    { [image |-> DataUri("image/png", "gen"), text |-> NullStr],
      [image |-> Null, text |-> "note"] }

\* text typed into the prompt fields, as sequences of characters
PromptInputs == { <<"p">>, <<" ">> }
NegativePromptInputs == { <<"n">> }
InfoFields == {"bodyShape", "height", "ageRange", "personalStyle"}
InfoValues == {"", "v"}

\* the seasons and fashion styles of the outfit accordion: one of the four
\* seasons and two of the fifteen styles
SEASONS == {"spring"}
FASHION_STYLES == {"casual", "classic"}
OutfitKeys == SEASONS \X FASHION_STYLES

\* a cell of outfitSuggestions: undefined, 'loading', OutfitDetails[], or the
\* message of an error
NoCell == [status |-> "none"]
LoadingCell == [status |-> "loading"]
OutfitsCell(call) == [status |-> "outfits", of |-> call]
ErrorCell(message) == [status |-> "error", message |-> message]

\* useState({}): no cell of any season
NoOutfits == [key \in OutfitKeys |-> NoCell]

\* useState({ hairstyle: false, pose: false })
NotRefreshing == [hairstyle |-> FALSE, pose |-> FALSE]

\* user-facing messages
ValidationMsg == "upload a photo and enter a prompt"
FormatMsg == "image format is not valid, cannot continue editing"
GatewayMsg(kind) == "failed: " \o kind

IsWhitespace(c) == c \in {" ", "\t", "\n"}

\* String.prototype.trim on a sequence of characters
RECURSIVE TrimLeft(_)
TrimLeft(s) ==
    IF s = <<>> THEN <<>>
    ELSE IF IsWhitespace(Head(s)) THEN TrimLeft(Tail(s)) ELSE s

RECURSIVE TrimRight(_)
TrimRight(s) ==
    IF s = <<>> THEN <<>>
    ELSE IF IsWhitespace(s[Len(s)]) THEN TrimRight(SubSeq(s, 1, Len(s) - 1)) ELSE s

Trim(s) == TrimRight(TrimLeft(s))

-----------------------------------------------------------------------------
(* The reducer *)

initialPersonState(id) ==
    [ id |-> id, images |-> <<>>, bodyShape |-> "", height |-> "",
      ageRange |-> "", personalStyle |-> "" ]

initialState ==
    [ numberOfPeople |-> 1,
      people |-> <<initialPersonState(1), initialPersonState(2)>>,
      selectedPersonId |-> 1,
      combineInOneImage |-> FALSE,
      appStep |-> "upload",
      styleReferenceImages |-> <<>>,
      prompt |-> <<>>,
      negativePrompt |-> <<>>,
      cameraComposition |-> "keep",
      result |-> Null,
      originalImageForDisplay |-> Null,
      isInfoSaved |-> FALSE,
      generatingStatus |-> "idle",
      isFetchingIdeas |-> FALSE,
      isAnalyzingStyle |-> FALSE,
      isExpandingPrompt |-> FALSE,
      error |-> NullStr,
      styleIdeas |-> NullStr,
      styleReferenceAnalysis |-> NullStr,
      styleReferenceAnalysisError |-> NullStr,
      isShareSupported |-> FALSE,
      generationHistory |-> <<>> ]

\* the history item GENERATE_SUCCESS builds, or Null for a result with no image
NewHistoryItem(s, payload) ==
    IF payload.image # Null
    THEN [ result |-> payload,
           originalImage |-> s.originalImageForDisplay,
           prompt |-> s.prompt,
           negativePrompt |-> s.negativePrompt,
           cameraComposition |-> s.cameraComposition ]
    ELSE Null

ReduceReset(s) ==
    [ initialState EXCEPT !.isShareSupported = s.isShareSupported,
                          !.styleIdeas = s.styleIdeas ]

\* variant: the count changes and the slots keep what they hold
ReduceSetNumberOfPeople_KeepsPeople(s, n) ==
    [ s EXCEPT !.numberOfPeople = n, !.isInfoSaved = FALSE ]

ReduceSetNumberOfPeople(s, n) ==
    [ s EXCEPT !.numberOfPeople = n,
               !.people = <<initialPersonState(1), initialPersonState(2)>>,
               !.isInfoSaved = FALSE ]

\* variant: new images do not invalidate the saved info
ReduceSetPersonImages_KeepsSaved(s, personId, images) ==
    [ s EXCEPT !.people = [ i \in DOMAIN s.people |->
                                IF s.people[i].id = personId
                                THEN [s.people[i] EXCEPT !.images = images]
                                ELSE s.people[i] ] ]

ReduceSetPersonImages(s, personId, images) ==
    [ s EXCEPT !.people = [ i \in DOMAIN s.people |->
                                IF s.people[i].id = personId
                                THEN [s.people[i] EXCEPT !.images = images]
                                ELSE s.people[i] ],
               !.isInfoSaved = FALSE ]

\* variant: a descriptor edit does not invalidate the saved info
ReduceSetPersonInfo_KeepsSaved(s, personId, field, value) ==
    [ s EXCEPT !.people = [ i \in DOMAIN s.people |->
                                IF s.people[i].id = personId
                                THEN [s.people[i] EXCEPT ![field] = value]
                                ELSE s.people[i] ] ]

ReduceSetPersonInfo(s, personId, field, value) ==
    [ s EXCEPT !.people = [ i \in DOMAIN s.people |->
                                IF s.people[i].id = personId
                                THEN [s.people[i] EXCEPT ![field] = value]
                                ELSE s.people[i] ],
               !.isInfoSaved = FALSE ]

ReduceGenerateStart(s, image) ==
    [ s EXCEPT !.generatingStatus = "generating",
               !.appStep = "result",
               !.error = NullStr,
               !.result = Null,
               !.originalImageForDisplay = image ]

\* variant: the result is shown and not recorded in the history
ReduceGenerateSuccess_Unrecorded(s, payload) ==
    [ s EXCEPT !.generatingStatus = "success",
               !.result = payload ]

\* variant: the new entry goes to the end of the history
ReduceGenerateSuccess_Appends(s, payload) ==
    LET item == NewHistoryItem(s, payload)
    IN  [ s EXCEPT !.generatingStatus = "success",
                   !.result = payload,
                   !.generationHistory =
                        IF item # Null THEN s.generationHistory \o <<item>>
                        ELSE s.generationHistory ]

ReduceGenerateSuccess(s, payload) ==
    LET item == NewHistoryItem(s, payload)
    IN  [ s EXCEPT !.generatingStatus = "success",
                   !.result = payload,
                   !.generationHistory =
                        IF item # Null THEN <<item>> \o s.generationHistory
                        ELSE s.generationHistory ]

ReduceGenerateError(s, msg) ==
    [ s EXCEPT !.generatingStatus = "error",
               !.appStep = "result",
               !.error = msg,
               !.originalImageForDisplay = Null ]

ReduceReturnToInfo(s) ==
    [ s EXCEPT !.appStep = "info",
               !.generatingStatus = "idle",
               !.error = NullStr ]

\* variant: continuing starts from an empty history
ReduceContinueEditing_DropsHistory(s, image) ==
    [ initialState EXCEPT
        !.appStep = "info",
        !.numberOfPeople = 1,
        !.people = << [initialPersonState(1) EXCEPT !.images = <<image>>],
                      initialPersonState(2) >>,
        !.isShareSupported = s.isShareSupported,
        !.styleIdeas = s.styleIdeas,
        !.prompt = s.prompt ]

\* variant: continuing clears the prompt
ReduceContinueEditing_ClearsPrompt(s, image) ==
    [ initialState EXCEPT
        !.appStep = "info",
        !.numberOfPeople = 1,
        !.people = << [initialPersonState(1) EXCEPT !.images = <<image>>],
                      initialPersonState(2) >>,
        !.isShareSupported = s.isShareSupported,
        !.styleIdeas = s.styleIdeas,
        !.generationHistory = s.generationHistory ]

ReduceContinueEditing(s, image) ==
    [ initialState EXCEPT
        !.appStep = "info",
        !.numberOfPeople = 1,
        !.people = << [initialPersonState(1) EXCEPT !.images = <<image>>],
                      initialPersonState(2) >>,
        !.isShareSupported = s.isShareSupported,
        !.styleIdeas = s.styleIdeas,
        !.prompt = s.prompt,
        !.generationHistory = s.generationHistory ]

\* variant: loading an entry leaves the error message in place
ReduceLoadFromHistory_KeepsError(s, item) ==
    [ s EXCEPT !.result = item.result,
               !.originalImageForDisplay = item.originalImage,
               !.prompt = item.prompt,
               !.negativePrompt = item.negativePrompt,
               !.cameraComposition = item.cameraComposition,
               !.generatingStatus = "success" ]

\* variant: loading an entry also lists it again at the head of the history
ReduceLoadFromHistory_Relists(s, item) ==
    [ s EXCEPT !.result = item.result,
               !.originalImageForDisplay = item.originalImage,
               !.prompt = item.prompt,
               !.negativePrompt = item.negativePrompt,
               !.cameraComposition = item.cameraComposition,
               !.error = NullStr,
               !.generatingStatus = "success",
               !.generationHistory = <<item>> \o s.generationHistory ]

ReduceLoadFromHistory(s, item) ==
    [ s EXCEPT !.result = item.result,
               !.originalImageForDisplay = item.originalImage,
               !.prompt = item.prompt,
               !.negativePrompt = item.negativePrompt,
               !.cameraComposition = item.cameraComposition,
               !.error = NullStr,
               !.generatingStatus = "success" ]

\* appReducer(state, action); an action is a record with a type and a payload
appReducer(s, a) ==
    CASE a.type = "RESET" -> ReduceReset(s)
      [] a.type = "SET_NUMBER_OF_PEOPLE" -> ReduceSetNumberOfPeople(s, a.payload)
      [] a.type = "SET_PERSON_IMAGES" ->
            ReduceSetPersonImages(s, a.payload.personId, a.payload.images)
      [] a.type = "SET_STYLE_REFERENCE_IMAGES" ->
            [s EXCEPT !.styleReferenceImages = a.payload]
      [] a.type = "SET_PROMPT_INFO" -> [s EXCEPT ![a.payload.field] = a.payload.value]
      [] a.type = "SET_PERSON_INFO" ->
            ReduceSetPersonInfo(s, a.payload.personId, a.payload.field, a.payload.value)
      [] a.type = "SET_APP_STEP" -> [s EXCEPT !.appStep = a.payload]
      [] a.type = "SET_SELECTED_PERSON_ID" -> [s EXCEPT !.selectedPersonId = a.payload]
      [] a.type = "TOGGLE_COMBINE_IN_ONE_IMAGE" ->
            [s EXCEPT !.combineInOneImage = ~s.combineInOneImage]
      [] a.type = "SAVE_INFO_SUCCESS" ->
            [s EXCEPT !.generatingStatus = "idle", !.isInfoSaved = TRUE]
      [] a.type = "FETCH_IDEAS_START" -> [s EXCEPT !.isFetchingIdeas = TRUE]
      [] a.type = "FETCH_IDEAS_SUCCESS" ->
            [s EXCEPT !.isFetchingIdeas = FALSE, !.styleIdeas = a.payload]
      [] a.type = "FETCH_IDEAS_ERROR" ->
            [s EXCEPT !.isFetchingIdeas = FALSE, !.error = a.payload]
      [] a.type = "EXPAND_PROMPT_START" ->
            [s EXCEPT !.isExpandingPrompt = TRUE, !.error = NullStr]
      [] a.type = "EXPAND_PROMPT_SUCCESS" ->
            [s EXCEPT !.isExpandingPrompt = FALSE, !.prompt = a.payload]
      [] a.type = "EXPAND_PROMPT_ERROR" ->
            [s EXCEPT !.isExpandingPrompt = FALSE, !.error = a.payload]
      [] a.type = "GENERATE_START" -> ReduceGenerateStart(s, a.payload)
      [] a.type = "GENERATE_SUCCESS" -> ReduceGenerateSuccess(s, a.payload)
      [] a.type = "GENERATE_ERROR" -> ReduceGenerateError(s, a.payload)
      [] a.type = "RETURN_TO_INFO" -> ReduceReturnToInfo(s)
      [] a.type = "CONTINUE_EDITING" -> ReduceContinueEditing(s, a.payload)
      [] a.type = "ANALYZE_STYLE_START" ->
            [s EXCEPT !.isAnalyzingStyle = TRUE, !.styleReferenceAnalysis = NullStr,
                      !.styleReferenceAnalysisError = NullStr, !.error = NullStr]
      [] a.type = "ANALYZE_STYLE_SUCCESS" ->
            [s EXCEPT !.isAnalyzingStyle = FALSE, !.styleReferenceAnalysis = a.payload,
                      !.styleReferenceAnalysisError = NullStr]
      [] a.type = "ANALYZE_STYLE_ERROR" ->
            [s EXCEPT !.isAnalyzingStyle = FALSE, !.styleReferenceAnalysis = NullStr,
                      !.styleReferenceAnalysisError = a.payload]
      [] a.type = "CLEAR_STYLE_ANALYSIS" ->
            [s EXCEPT !.isAnalyzingStyle = FALSE, !.styleReferenceAnalysis = NullStr,
                      !.styleReferenceAnalysisError = NullStr]
      [] a.type = "SET_CAMERA_COMPOSITION" -> [s EXCEPT !.cameraComposition = a.payload]
      [] a.type = "SET_SHARE_SUPPORT" -> [s EXCEPT !.isShareSupported = a.payload]
      [] a.type = "LOAD_FROM_HISTORY" -> ReduceLoadFromHistory(s, a.payload)
      [] OTHER -> s

Act(type, payload) == [type |-> type, payload |-> payload]
Act0(type) == [type |-> type]

-----------------------------------------------------------------------------
(* Values derived on every render *)

MaxImages == 5

Min(a, b) == IF a < b THEN a ELSE b

\* people.find(p => p.id === selectedPersonId)
selectedPerson(s) ==
    s.people[CHOOSE i \in DOMAIN s.people : s.people[i].id = s.selectedPersonId]

HasImages(p) == Len(p.images) > 0

\* people.slice(0, numberOfPeople).filter(p => p.images.length > 0)
activePeople(s) == SelectSeq(SubSeq(s.people, 1, s.numberOfPeople), HasImages)

isLoading(s) ==
    \/ s.generatingStatus = "generating"
    \/ s.isFetchingIdeas
    \/ s.isAnalyzingStyle
    \/ s.isExpandingPrompt

\* the people handleGenerateClick sends to the gateway
peopleToGenerate(s) ==
    IF s.combineInOneImage THEN activePeople(s) ELSE <<selectedPerson(s)>>

\* peopleToGenerate.some(p => p.images.length === 0) || !prompt.trim()
GenerateInvalid(s) ==
    \/ \E i \in DOMAIN peopleToGenerate(s) : Len(peopleToGenerate(s)[i].images) = 0
    \/ Trim(s.prompt) = <<>>

\* ImageUploader: [...currentImages, ...results].slice(0, maxImages)
AddImages(current, results, maxImages) ==
    SubSeq(current \o results, 1, Min(Len(current \o results), maxImages))

\* ImageUploader: currentImages.filter((_, index) => index !== indexToRemove)
RemoveImage(current, k) ==
    [ i \in 1..(Len(current) - 1) |-> IF i < k THEN current[i] ELSE current[i + 1] ]

\* variant of ParseDataUri that does not look for the MIME type of the header
ParseDataUri_AnyHeader(uri) ==
    IF uri.data = "" THEN Null
    ELSE [base64 |-> uri.data, mimeType |-> uri.mime]

\* handleContinueEditing: the UploadedImageInfo parsed from the result's data URI,
\* or Null when the header or the payload is missing or the header holds no MIME type
ParseDataUri(uri) ==
    IF uri.data = "" \/ uri.mime = "" THEN Null
    ELSE [base64 |-> uri.data, mimeType |-> uri.mime]

-----------------------------------------------------------------------------
(* Gateway calls in flight *)

GeneralCall(person) == [kind |-> "general", person |-> person]
IdeasCall(force) == [kind |-> "ideas", force |-> force]
EditCall(s) ==
    [ kind |-> "edit",
      people |-> peopleToGenerate(s),
      styleReferenceImages |-> s.styleReferenceImages,
      prompt |-> s.prompt,
      negativePrompt |-> s.negativePrompt,
      cameraComposition |-> s.cameraComposition ]

\* the bag holding each call of a sequence of calls
CallBag(calls) ==
    LET Count(c) == Cardinality({i \in DOMAIN calls : calls[i] = c})
    IN  [ c \in {calls[i] : i \in DOMAIN calls} |-> Count(c) ]

Settle(call) == pending (-) SetToBag({call})

\* useEffect([appStep, styleIdeas]): entering the info step without trend ideas
IdeasEffectFires(old, new) ==
    new.appStep = "info" /\ new.styleIdeas = NullStr /\ old.appStep # "info"

\* One handler run: the reducer state it leaves, the calls it issues, and the
\* effect that the next render runs (refreshStyleIdeas without force).
Commit(new, calls) ==
    LET fire == IdeasEffectFires(state, new)
        issued == IF fire THEN calls \o <<IdeasCall(FALSE)>> ELSE calls
    IN  /\ BagCardinality(pending) + Len(issued) <= MaxPending
        /\ state' = IF fire THEN appReducer(new, Act0("FETCH_IDEAS_START")) ELSE new
        /\ pending' = pending (+) CallBag(issued)

-----------------------------------------------------------------------------
(* Upload step *)

SetNumberOfPeople(n) ==
    /\ state.appStep = "upload"
    /\ Commit(appReducer(state, Act("SET_NUMBER_OF_PEOPLE", n)), <<>>)
    /\ UNCHANGED <<generalSuggestions, panelVars, aux, uncaught, steps, svcVars>>

\* variant: the fetches in flight for the person are dropped with the images
handlePersonImagesChange_Cancels(personId, images) ==
    /\ state.appStep = "upload"
    /\ personId <= state.numberOfPeople
    /\ state' = appReducer(state, Act("SET_PERSON_IMAGES",
                                      [personId |-> personId, images |-> images]))
    /\ pending' = [ c \in { c \in BagToSet(pending) :
                               "person" \in DOMAIN c => c.person.id # personId }
                      |-> pending[c] ]
    /\ generalSuggestions' = [generalSuggestions EXCEPT ![personId] = Null]
    /\ outfitSuggestions' = [outfitSuggestions EXCEPT ![personId] = NoOutfits]
    /\ UNCHANGED isRefreshingSuggestions

\* handlePersonImagesChange with what the uploader of slot personId emits
handlePersonImagesChange(personId, images) ==
    /\ state.appStep = "upload"
    /\ personId <= state.numberOfPeople
    /\ Commit(appReducer(state, Act("SET_PERSON_IMAGES",
                                    [personId |-> personId, images |-> images])), <<>>)
    /\ generalSuggestions' = [generalSuggestions EXCEPT ![personId] = Null]
    /\ outfitSuggestions' = [outfitSuggestions EXCEPT ![personId] = NoOutfits]
    /\ UNCHANGED isRefreshingSuggestions

PersonImagesChange(personId, images) ==
    /\ handlePersonImagesChange(personId, images)
    /\ UNCHANGED <<aux, uncaught, steps, svcVars>>

AddPersonImage(personId) ==
    /\ Len(state.people[personId].images) < MaxUploads
    /\ PersonImagesChange(personId,
                          AddImages(state.people[personId].images, <<Photo>>, MaxImages))

RemovePersonImage(personId) ==
    \E k \in 1..Len(state.people[personId].images) :
        PersonImagesChange(personId, RemoveImage(state.people[personId].images, k))

GoToInfo ==
    /\ state.appStep = "upload"
    /\ Len(activePeople(state)) = state.numberOfPeople
    /\ Commit(appReducer(state, Act("SET_APP_STEP", "info")), <<>>)
    /\ UNCHANGED <<generalSuggestions, panelVars, aux, uncaught, steps, svcVars>>

-----------------------------------------------------------------------------
(* Info step *)

GoToUpload ==
    /\ state.appStep = "info"
    /\ Commit(appReducer(state, Act("SET_APP_STEP", "upload")), <<>>)
    /\ UNCHANGED <<generalSuggestions, panelVars, aux, uncaught, steps, svcVars>>

SelectPerson(personId) ==
    /\ state.appStep = "info"
    /\ state.numberOfPeople > 1
    /\ Commit(appReducer(state, Act("SET_SELECTED_PERSON_ID", personId)), <<>>)
    /\ UNCHANGED <<generalSuggestions, panelVars, aux, uncaught, steps, svcVars>>

SetPersonInfo(field, value) ==
    /\ state.appStep = "info"
    /\ aux < MaxAux
    /\ aux' = aux + 1
    /\ Commit(appReducer(state, Act("SET_PERSON_INFO",
                [personId |-> state.selectedPersonId, field |-> field, value |-> value])),
              <<>>)
    /\ UNCHANGED <<generalSuggestions, panelVars, uncaught, steps, svcVars>>

\* handleInfoSave up to its await
InfoSaveClick ==
    /\ state.appStep = "info"
    /\ Len(selectedPerson(state).images) > 0
    /\ Commit(state, <<GeneralCall(selectedPerson(state))>>)
    /\ UNCHANGED <<generalSuggestions, panelVars, aux, uncaught, steps, svcVars>>

\* fetchAndSetGeneralSuggestions after its await
ResolveGeneral(call, ok) ==
    /\ BagIn(call, pending)
    /\ call.kind = "general"
    /\ IF ok
       THEN /\ generalSuggestions' =
                  [generalSuggestions EXCEPT ![call.person.id] =
                                                 [from |-> call.person]]
            /\ state' = appReducer(state, Act0("SAVE_INFO_SUCCESS"))
       ELSE /\ generalSuggestions' = generalSuggestions
            /\ state' = appReducer(state, Act("GENERATE_ERROR", GatewayMsg("general")))
    /\ pending' = Settle(call)
    /\ UNCHANGED <<panelVars, aux, uncaught, steps, svcVars>>

ResolveIdeas(call, ok) ==
    /\ BagIn(call, pending)
    /\ call.kind = "ideas"
    /\ state' = IF ok THEN appReducer(state, Act("FETCH_IDEAS_SUCCESS", "ideas"))
                ELSE appReducer(state, Act("FETCH_IDEAS_ERROR", GatewayMsg("ideas")))
    /\ pending' = Settle(call)
    /\ UNCHANGED <<generalSuggestions, panelVars, aux, uncaught, steps, svcVars>>

-----------------------------------------------------------------------------
(* Prompt section of the info step: rendered once isInfoSaved *)

PromptSection == state.appStep = "info" /\ state.isInfoSaved

ToggleCombine ==
    /\ PromptSection
    /\ state.numberOfPeople > 1
    /\ Commit(appReducer(state, Act0("TOGGLE_COMBINE_IN_ONE_IMAGE")), <<>>)
    /\ UNCHANGED <<generalSuggestions, panelVars, aux, uncaught, steps, svcVars>>

\* typing into, clearing, or adding a suggestion to the prompt textarea
SetPrompt(value) ==
    /\ PromptSection
    /\ ~isLoading(state)
    /\ Commit(appReducer(state, Act("SET_PROMPT_INFO",
                                    [field |-> "prompt", value |-> value])), <<>>)
    /\ UNCHANGED <<generalSuggestions, panelVars, aux, uncaught, steps, svcVars>>

SetNegativePrompt(value) ==
    /\ PromptSection
    /\ ~isLoading(state)
    /\ aux < MaxAux
    /\ aux' = aux + 1
    /\ Commit(appReducer(state, Act("SET_PROMPT_INFO",
                                    [field |-> "negativePrompt", value |-> value])), <<>>)
    /\ UNCHANGED <<generalSuggestions, panelVars, uncaught, steps, svcVars>>

SetCameraComposition(value) ==
    /\ PromptSection
    /\ aux < MaxAux
    /\ aux' = aux + 1
    /\ Commit(appReducer(state, Act("SET_CAMERA_COMPOSITION", value)), <<>>)
    /\ UNCHANGED <<generalSuggestions, panelVars, uncaught, steps, svcVars>>

\* handleGenerateClick up to its await
GenerateClick ==
    /\ PromptSection
    /\ ~isLoading(state)
    /\ Len(activePeople(state)) # 0
    /\ state.prompt # <<>>
    /\ IF GenerateInvalid(state)
       THEN /\ Commit(appReducer(state, Act("GENERATE_ERROR", ValidationMsg)), <<>>)
            /\ UNCHANGED <<uncaught, steps, svcVars>>
       ELSE IF peopleToGenerate(state) = <<>>
       THEN \* peopleToGenerate[0].images throws a TypeError outside the try block
            /\ uncaught' = TRUE
            /\ UNCHANGED <<state, pending, steps, svcVars>>
       ELSE /\ Commit(appReducer(state, Act("GENERATE_START",
                                           peopleToGenerate(state)[1].images[1])),
                      <<EditCall(state)>>)
            /\ UNCHANGED <<uncaught, steps, svcVars>>
    /\ UNCHANGED <<generalSuggestions, panelVars, aux>>

\* handleGenerateClick after its await: editImage returned result
ResolveEditSuccess(call, result) ==
    /\ BagIn(call, pending)
    /\ call.kind = "edit"
    /\ result.image # Null => Len(state.generationHistory) < MaxHistory
    /\ state' = appReducer(state, Act("GENERATE_SUCCESS", result))
    /\ pending' = Settle(call)
    /\ UNCHANGED <<generalSuggestions, panelVars, aux, uncaught, steps, svcVars>>

\* handleGenerateClick after its await: editImage threw
ResolveEditError(call) ==
    /\ BagIn(call, pending)
    /\ call.kind = "edit"
    /\ state' = appReducer(state, Act("GENERATE_ERROR", GatewayMsg("edit")))
    /\ pending' = Settle(call)
    /\ UNCHANGED <<generalSuggestions, panelVars, aux, uncaught, steps, svcVars>>

-----------------------------------------------------------------------------
(* Suggestion panel of the prompt section, and the prompt expansion *)

OutfitCall(person, season, style) ==
    [kind |-> "outfit", person |-> person, season |-> season, style |-> style]

\* category is "hairstyle" or "pose"
RefreshCall(category, person) == [kind |-> category, person |-> person]

ExpandCall(prompt) == [kind |-> "expand", prompt |-> prompt]

\* variant: the person's cells are replaced by the one cell
SetCell_Replaces(suggestions, personId, season, style, cell) ==
    [suggestions EXCEPT ![personId] = [NoOutfits EXCEPT ![<<season, style>>] = cell]]

\* setOutfitSuggestions(prev => ({...prev, [id]: {...prev[id], [season]: {..., [style]: cell}}}))
SetCell(suggestions, personId, season, style, cell) ==
    [suggestions EXCEPT ![personId][<<season, style>>] = cell]

\* handleGetOutfitSuggestion up to its await
handleGetOutfitSuggestion(season, style) ==
    /\ Len(selectedPerson(state).images) > 0
    /\ BagCardinality(pending) < MaxPending
    /\ outfitSuggestions' = SetCell(outfitSuggestions, state.selectedPersonId,
                                    season, style, LoadingCell)
    /\ pending' = pending (+) CallBag(<<OutfitCall(selectedPerson(state), season, style)>>)
    /\ UNCHANGED <<state, generalSuggestions, isRefreshingSuggestions>>

\* handleStyleAccordionClick opening a style of the active season whose cell
\* is not set
StyleAccordionClick(season, style) ==
    /\ PromptSection
    /\ outfitSuggestions[state.selectedPersonId][<<season, style>>] = NoCell
    /\ handleGetOutfitSuggestion(season, style)
    /\ UNCHANGED <<aux, uncaught, steps, svcVars>>

\* handleGetOutfitSuggestion after its await
ResolveOutfit(call, ok) ==
    /\ BagIn(call, pending)
    /\ call.kind = "outfit"
    /\ outfitSuggestions' =
          SetCell(outfitSuggestions, call.person.id, call.season, call.style,
                  IF ok THEN OutfitsCell(call) ELSE ErrorCell(GatewayMsg("outfit")))
    /\ pending' = Settle(call)
    /\ UNCHANGED <<state, generalSuggestions, isRefreshingSuggestions>>
    /\ UNCHANGED <<aux, uncaught, steps, svcVars>>

\* { '헤어스타일': [], '포즈': [] }
EmptySuggestions == [hairstyle |-> Null, pose |-> Null]

\* {...(prev[id] ?? EmptySuggestions), [category]: newSuggestions[category]}
Refreshed(prev, category, person) ==
    LET base == IF prev = Null THEN EmptySuggestions ELSE prev
    IN  [f \in DOMAIN base \cup {category} |-> IF f = category THEN person ELSE base[f]]

\* handleRefreshHairstyles, handleRefreshPoses up to the await
RefreshClick(category) ==
    /\ PromptSection
    /\ generalSuggestions[state.selectedPersonId] # Null
    /\ ~isRefreshingSuggestions[category]
    /\ Len(selectedPerson(state).images) > 0
    /\ BagCardinality(pending) < MaxPending
    /\ isRefreshingSuggestions' = [isRefreshingSuggestions EXCEPT ![category] = TRUE]
    /\ pending' = pending (+) CallBag(<<RefreshCall(category, selectedPerson(state))>>)
    /\ UNCHANGED <<state, generalSuggestions, outfitSuggestions>>
    /\ UNCHANGED <<aux, uncaught, steps, svcVars>>

\* handleRefreshHairstyles, handleRefreshPoses after the await: the catch
\* block logs the error and nothing else
ResolveRefresh(call, ok) ==
    /\ BagIn(call, pending)
    /\ call.kind \in {"hairstyle", "pose"}
    /\ generalSuggestions' =
          IF ok
          THEN [generalSuggestions EXCEPT ![call.person.id] =
                    Refreshed(generalSuggestions[call.person.id], call.kind, call.person)]
          ELSE generalSuggestions
    /\ isRefreshingSuggestions' = [isRefreshingSuggestions EXCEPT ![call.kind] = FALSE]
    /\ pending' = Settle(call)
    /\ UNCHANGED <<state, outfitSuggestions>>
    /\ UNCHANGED <<aux, uncaught, steps, svcVars>>

\* handleExpandPrompt up to its await
ExpandClick ==
    /\ PromptSection
    /\ ~isLoading(state)
    /\ Trim(state.prompt) # <<>>
    /\ Commit(appReducer(state, Act0("EXPAND_PROMPT_START")), <<ExpandCall(state.prompt)>>)
    /\ UNCHANGED <<generalSuggestions, panelVars, aux, uncaught, steps, svcVars>>

\* handleExpandPrompt after its await
ResolveExpand(call, ok) ==
    /\ BagIn(call, pending)
    /\ call.kind = "expand"
    /\ state' = IF ok
                THEN appReducer(state, Act("EXPAND_PROMPT_SUCCESS", call.prompt \o <<"+">>))
                ELSE appReducer(state, Act("EXPAND_PROMPT_ERROR", GatewayMsg("expand")))
    /\ pending' = Settle(call)
    /\ UNCHANGED <<generalSuggestions, panelVars, aux, uncaught, steps, svcVars>>

-----------------------------------------------------------------------------
(* Result step *)

HasResultImage(s) == s.result # Null /\ s.result.image # Null

\* the row of result buttons: !isLoading && result?.image
ResultButtons == state.appStep = "result" /\ ~isLoading(state) /\ HasResultImage(state)

handleContinueEditing ==
    /\ ResultButtons
    /\ LET image == ParseDataUri(state.result.image)
       IN  IF image = Null
           THEN /\ Commit(appReducer(state, Act("GENERATE_ERROR", FormatMsg)), <<>>)
                /\ UNCHANGED <<generalSuggestions, panelVars>>
           ELSE /\ Commit(appReducer(state, Act("CONTINUE_EDITING", image)), <<>>)
                /\ generalSuggestions' = [p \in PersonIds |-> Null]
                /\ outfitSuggestions' = [p \in PersonIds |-> NoOutfits]
                /\ UNCHANGED isRefreshingSuggestions
    /\ UNCHANGED <<aux, uncaught, steps, svcVars>>

handleReturnToInfo ==
    /\ \/ ResultButtons
       \/ state.appStep = "result" /\ state.generatingStatus = "error"
    /\ Commit(appReducer(state, Act0("RETURN_TO_INFO")), <<>>)
    /\ UNCHANGED <<generalSuggestions, panelVars, aux, uncaught, steps, svcVars>>

\* a click on entry k of the history gallery
LoadFromHistory(k) ==
    /\ state.appStep = "result"
    /\ k \in DOMAIN state.generationHistory
    /\ state.generationHistory[k].result.image # Null
    /\ Commit(appReducer(state, Act("LOAD_FROM_HISTORY", state.generationHistory[k])), <<>>)
    /\ UNCHANGED <<generalSuggestions, panelVars, aux, uncaught, steps, svcVars>>

-----------------------------------------------------------------------------
(* The gateway (geminiService): one operation, its retries, its catch block *)

MaxRetries == 3
initialDelay == 1000

\* samples of Math.random() * 1000, a value from 0 up to but not including 1000
Jitters == {0, 500, 999}

\* variant of BackoffDelay that counts the attempts from one
BackoffDelay_FromOne(attempt, jitter) == initialDelay * 2^(attempt + 1) + jitter

\* the delay withRetry waits after the failure of attempt (counted from zero)
BackoffDelay(attempt, jitter) == initialDelay * 2^attempt + jitter

Operations ==
    { "expandPrompt", "getOutfitSuggestion", "getGeneralSuggestions",
      "getHairstyleSuggestions", "getPoseSuggestions", "analyzeStyleFromImage",
      "editImage", "fetchStyleIdeas" }

\* messages of the errors the SDK call rejects with
ServiceMessages ==
    { "{\"error\":{\"code\":429}}", "429 RESOURCE_EXHAUSTED", "400 INVALID_ARGUMENT",
      "503 UNAVAILABLE", "fetch failed" }

\* message.includes(needle), for the messages above
Includes(message, needle) ==
    CASE message = "{\"error\":{\"code\":429}}" -> needle \in {"\"code\":429"}
      [] message = "429 RESOURCE_EXHAUSTED" -> needle \in {"RESOURCE_EXHAUSTED"}
      [] message = "400 INVALID_ARGUMENT" -> needle \in {"400", "INVALID"}
      [] message = "503 UNAVAILABLE" -> needle \in {"503", "UNAVAILABLE"}
      [] OTHER -> FALSE

\* message.toLowerCase().includes(needle), for the messages above
LowerIncludes(message, needle) ==
    CASE message = "{\"error\":{\"code\":429}}" -> needle \in {"\"code\":429"}
      [] message = "429 RESOURCE_EXHAUSTED" -> needle \in {"resource_exhausted"}
      [] message = "400 INVALID_ARGUMENT" -> needle \in {"400", "invalid"}
      [] message = "503 UNAVAILABLE" -> needle \in {"503", "unavailable"}
      [] OTHER -> FALSE

\* an error object: its class and its message
ErrorOf(class, message) == [class |-> class, message |-> message]

ServiceErrors == { ErrorOf("Error", m) : m \in ServiceMessages }

\* error instanceof Error: ApiError and SafetyError extend Error
InstanceOfError(e) == e.class \in {"Error", "ApiError", "SafetyError"}

\* withRetry: isRateLimitError
isRateLimitError(e) ==
    /\ InstanceOfError(e)
    /\ \/ Includes(e.message, "\"code\":429")
       \/ Includes(e.message, "RESOURCE_EXHAUSTED")

\* user-facing messages of the gateway
BusyMsg == "too many requests, try again shortly"
BadRequestMsg == "the AI did not understand the request"
ServerMsg == "the AI server has a temporary problem"
UnknownEditMsg == "image generation failed for an unknown reason"
IdeasFailedMsg == "failed to load the latest style ideas"
OperationFailedMsg(name) == "failed: " \o name

\* variant of Rethrown in which every catch block passes the error on
Rethrown_Original(name, e) == e

\* the catch block of operation name: the error it rejects with, given the
\* error caught
Rethrown(name, e) ==
    IF name = "fetchStyleIdeas" THEN ErrorOf("ApiError", IdeasFailedMsg)
    ELSE IF name = "editImage"
    THEN IF e.class \in {"ApiError", "SafetyError"} THEN e
         ELSE IF /\ InstanceOfError(e)
                 /\ LowerIncludes(e.message, "400")
                 /\ \/ LowerIncludes(e.message, "invalid")
                    \/ LowerIncludes(e.message, "bad request")
         THEN ErrorOf("ApiError", BadRequestMsg)
         ELSE IF /\ InstanceOfError(e)
                 /\ \/ LowerIncludes(e.message, "500")
                    \/ LowerIncludes(e.message, "503")
                    \/ LowerIncludes(e.message, "server error")
                    \/ LowerIncludes(e.message, "unavailable")
         THEN ErrorOf("ApiError", ServerMsg)
         ELSE ErrorOf("ApiError", UnknownEditMsg)
    ELSE IF InstanceOfError(e) THEN e
    ELSE ErrorOf("ApiError", OperationFailedMsg(name))

\* the action the caller's catch block dispatches with the message, if any
ErrorActionType(name) ==
    CASE name = "expandPrompt" -> "EXPAND_PROMPT_ERROR"
      [] name = "getGeneralSuggestions" -> "GENERATE_ERROR"
      [] name = "analyzeStyleFromImage" -> "ANALYZE_STYLE_ERROR"
      [] name = "editImage" -> "GENERATE_ERROR"
      [] name = "fetchStyleIdeas" -> "FETCH_IDEAS_ERROR"
      [] OTHER -> "NONE"

\* the field of the workflow state that then holds the message
ErrorField(name) ==
    IF name = "analyzeStyleFromImage" THEN "styleReferenceAnalysisError" ELSE "error"

IdleOp == [pc |-> "idle"]

\* no operation of the gateway is in flight
OpFree == op.pc \in {"idle", "resolved", "rejected"}

\* a component calls operation name: withRetry enters its loop
StartOperation(name) ==
    /\ OpFree
    /\ name # "fetchStyleIdeas"
    /\ op' = [ pc |-> "calling", name |-> name, attempt |-> 0, outcomes |-> <<>> ]
    /\ UNCHANGED <<state, generalSuggestions, panelVars, pending, aux, uncaught, steps>>
    /\ UNCHANGED <<store, now, throttle, uploaders, arg, ret>>

\* the operation rejects with Rethrown(e) and the caller's catch block runs
Reject(e, outcomes) ==
    LET thrown == Rethrown(op.name, e)
        type == ErrorActionType(op.name)
    IN  /\ op' = [ pc |-> "rejected", name |-> op.name, attempt |-> op.attempt,
                   outcomes |-> outcomes, network |-> TRUE, error |-> thrown ]
        /\ state' = IF type = "NONE" THEN state
                    ELSE appReducer(state, Act(type, thrown.message))

\* the error an operation throws on a response it cannot use
ResponseError(name) ==
    IF name = "editImage" THEN ErrorOf("ApiError", "no image or text in the response")
    ELSE ErrorOf("Error", "the AI returned an invalid format")

\* apiCall() resolves: withRetry returns the response of this attempt and the
\* operation validates it
ServiceResponds(valid) ==
    /\ op.pc = "calling"
    /\ op.name # "fetchStyleIdeas"
    /\ IF valid
       THEN /\ op' = [ pc |-> "resolved", name |-> op.name, attempt |-> op.attempt,
                       outcomes |-> Append(op.outcomes, "ok"),
                       network |-> TRUE,
                       result |-> [attempt |-> op.attempt + 1, data |-> "response"] ]
            /\ state' = state
       ELSE Reject(ResponseError(op.name), Append(op.outcomes, "unusable"))
    /\ UNCHANGED <<generalSuggestions, panelVars, pending, aux, uncaught, steps>>
    /\ UNCHANGED <<store, now, throttle, uploaders, arg, ret>>

\* variant of ServiceFails whose loop runs one iteration more
ServiceFails_RetriesAgain(e) ==
    /\ op.pc = "calling"
    /\ LET outcomes == Append(op.outcomes, e.message)
       IN  IF isRateLimitError(e)
           THEN IF op.attempt = MaxRetries
                THEN Reject(ErrorOf("ApiError", BusyMsg), outcomes)
                ELSE /\ \E jitter \in Jitters :
                            op' = [ pc |-> "waiting", name |-> op.name,
                                    attempt |-> op.attempt, outcomes |-> outcomes,
                                    delay |-> BackoffDelay(op.attempt, jitter) ]
                     /\ state' = state
           ELSE Reject(e, outcomes)
    /\ UNCHANGED <<generalSuggestions, panelVars, pending, aux, uncaught, steps>>
    /\ UNCHANGED <<store, now, throttle, uploaders, arg, ret>>

\* apiCall() rejects with e: the catch block of withRetry's loop
ServiceFails(e) ==
    /\ op.pc = "calling"
    /\ LET outcomes == Append(op.outcomes, e.message)
       IN  IF isRateLimitError(e)
           THEN IF op.attempt = MaxRetries - 1
                THEN Reject(ErrorOf("ApiError", BusyMsg), outcomes)
                ELSE /\ \E jitter \in Jitters :
                            op' = [ pc |-> "waiting", name |-> op.name,
                                    attempt |-> op.attempt, outcomes |-> outcomes,
                                    delay |-> BackoffDelay(op.attempt, jitter) ]
                     /\ state' = state
           ELSE Reject(e, outcomes)
    /\ UNCHANGED <<generalSuggestions, panelVars, pending, aux, uncaught, steps>>
    /\ UNCHANGED <<store, now, throttle, uploaders, arg, ret>>

\* setTimeout(resolve, delay) has fired: the loop's next iteration
BackoffElapses ==
    /\ op.pc = "waiting"
    /\ op' = [ pc |-> "calling", name |-> op.name, attempt |-> op.attempt + 1,
               outcomes |-> op.outcomes ]
    /\ UNCHANGED <<state, generalSuggestions, panelVars, pending, aux, uncaught, steps>>
    /\ UNCHANGED <<store, now, throttle, uploaders, arg, ret>>

-----------------------------------------------------------------------------
(* editImage: the response of the service *)

\* content parts of a candidate, at most
MaxParts == 2

FinishReasons == {"", "STOP", "SAFETY", "RECITATION", "MAX_TOKENS", "OTHER", "BLOCKLIST"}

\* a content part: its text ("" when it has none) and whether it has inlineData
Parts == [text : {"", "note"}, inlineData : BOOLEAN]

PartSeqs == UNION { [1..n -> Parts] : n \in 0..MaxParts }

\* a response: promptFeedback.blockReason set, candidates[0] present, its
\* finishReason ("" when it has none), content.parts present, and the parts
Responses ==
    [ blockReason : BOOLEAN, hasCandidate : BOOLEAN, finishReason : FinishReasons,
      hasParts : BOOLEAN, parts : PartSeqs ]

PromptBlockedMsg == "the request violates the safety policy"
OutputBlockedMsg == "the generated result was blocked by the safety policy"
RecitationMsg == "the result resembled copyrighted material"
MaxTokensMsg == "the request is too long"
FinishReasonMsg(finishReason) == "image generation failed, code: " \o finishReason
NoPartsMsg == "no valid response from the AI"
NoContentMsg == "no image or text in the response"

Thrown(e) == [ok |-> FALSE, error |-> e]
Returned(r) == [ok |-> TRUE, result |-> r]

\* the loop over candidate.content.parts, from editResult
RECURSIVE ReadParts(_, _)
ReadParts(parts, editResult) ==
    IF parts = <<>> THEN editResult
    ELSE LET part == Head(parts)
             next == IF part.text # "" THEN [editResult EXCEPT !.text = part.text]
                     ELSE IF part.inlineData
                     THEN [editResult EXCEPT !.image = DataUri("image/png", "gen")]
                     ELSE editResult
         IN  ReadParts(Tail(parts), next)

\* variant of ValidateResponse that looks at the candidate before the block
\* reason of the prompt
ValidateResponse_CandidateFirst(response) ==
    IF ~response.hasCandidate
    THEN Thrown(ErrorOf("SafetyError", OutputBlockedMsg))
    ELSE IF response.blockReason
    THEN Thrown(ErrorOf("SafetyError", PromptBlockedMsg))
    ELSE IF response.finishReason # "" /\ response.finishReason # "STOP"
    THEN CASE response.finishReason = "SAFETY" ->
                  Thrown(ErrorOf("SafetyError", OutputBlockedMsg))
           [] response.finishReason = "RECITATION" ->
                  Thrown(ErrorOf("SafetyError", RecitationMsg))
           [] response.finishReason = "MAX_TOKENS" ->
                  Thrown(ErrorOf("ApiError", MaxTokensMsg))
           [] OTHER -> Thrown(ErrorOf("ApiError", FinishReasonMsg(response.finishReason)))
    ELSE IF ~response.hasParts \/ Len(response.parts) = 0
    THEN Thrown(ErrorOf("ApiError", NoPartsMsg))
    ELSE LET editResult == ReadParts(response.parts, [image |-> Null, text |-> NullStr])
         IN  IF editResult.image = Null /\ editResult.text = NullStr
             THEN Thrown(ErrorOf("ApiError", NoContentMsg))
             ELSE Returned(editResult)

\* editImage after withRetry: what it throws or returns for the response
ValidateResponse(response) ==
    IF response.blockReason
    THEN Thrown(ErrorOf("SafetyError", PromptBlockedMsg))
    ELSE IF ~response.hasCandidate
    THEN Thrown(ErrorOf("SafetyError", OutputBlockedMsg))
    ELSE IF response.finishReason # "" /\ response.finishReason # "STOP"
    THEN CASE response.finishReason = "SAFETY" ->
                  Thrown(ErrorOf("SafetyError", OutputBlockedMsg))
           [] response.finishReason = "RECITATION" ->
                  Thrown(ErrorOf("SafetyError", RecitationMsg))
           [] response.finishReason = "MAX_TOKENS" ->
                  Thrown(ErrorOf("ApiError", MaxTokensMsg))
           [] OTHER -> Thrown(ErrorOf("ApiError", FinishReasonMsg(response.finishReason)))
    ELSE IF ~response.hasParts \/ Len(response.parts) = 0
    THEN Thrown(ErrorOf("ApiError", NoPartsMsg))
    ELSE LET editResult == ReadParts(response.parts, [image |-> Null, text |-> NullStr])
         IN  IF editResult.image = Null /\ editResult.text = NullStr
             THEN Thrown(ErrorOf("ApiError", NoContentMsg))
             ELSE Returned(editResult)

\* the service answers the edit request in flight with response
EditResponds(response) ==
    /\ op.pc = "calling"
    /\ op.name = "editImage"
    /\ response.hasParts \/ response.parts = <<>>
    /\ arg' = response
    /\ LET validated == ValidateResponse(response)
       IN  IF validated.ok
           THEN /\ op' = [ pc |-> "resolved", name |-> op.name, attempt |-> op.attempt,
                           outcomes |-> Append(op.outcomes, "ok"),
                           network |-> TRUE, result |-> validated.result ]
                /\ state' = state
           ELSE Reject(validated.error, Append(op.outcomes, "unusable"))
    /\ UNCHANGED <<generalSuggestions, panelVars, pending, aux, uncaught, steps>>
    /\ UNCHANGED <<store, now, throttle, uploaders, ret>>

-----------------------------------------------------------------------------
(* fetchStyleIdeas: the cache in sessionStorage *)

CACHE_DURATION == 3600000

\* ticks of the clock in one run
MaxTicks == 3

NoEntry == [kind |-> "absent"]

\* payloads the service answers a trend-ideas request with
IdeasPayloads == {"ideas A", "ideas B"}

\* a stored entry: unparsable text, the JSON value null, or a JSON object that
\* has or lacks a numeric timestamp and has or lacks data
CacheEntry(kind, hasTimestamp, timestamp, hasData, data) ==
    [ kind |-> kind, hasTimestamp |-> hasTimestamp, timestamp |-> timestamp,
      hasData |-> hasData, data |-> data ]

\* what the tab's store may hold when the page loads
StoredEntries ==
    { NoEntry,
      [kind |-> "unparsable"],
      [kind |-> "null"],
      CacheEntry("object", TRUE, 0, TRUE, "ideas A"),
      CacheEntry("object", FALSE, 0, TRUE, "ideas A"),
      CacheEntry("object", TRUE, 0, FALSE, ""),
      CacheEntry("object", TRUE, 0, TRUE, "not ideas"),
      CacheEntry("object", FALSE, 0, FALSE, "") }

Undefined == "undefined"

\* const { timestamp, data } = JSON.parse(cachedItem) throws
ParseThrows(entry) == entry.kind \in {"unparsable", "null"}

\* variant of IsFresh that still takes an entry of exactly CACHE_DURATION
IsFresh_Inclusive(entry, time) ==
    /\ entry.hasTimestamp
    /\ time - entry.timestamp <= CACHE_DURATION

\* Date.now() - timestamp < CACHE_DURATION (NaN compares false)
IsFresh(entry, time) ==
    /\ entry.hasTimestamp
    /\ time - entry.timestamp < CACHE_DURATION

\* the value the cache read returns: data as it is
CachedData(entry) == IF entry.hasData THEN entry.data ELSE Undefined

\* fetchStyleIdeas(forceRefresh) answers from the cache
CacheHit(forceRefresh) ==
    /\ ~forceRefresh
    /\ store # NoEntry
    /\ ~ParseThrows(store)
    /\ IsFresh(store, now)

\* fetchStyleIdeas(forceRefresh) up to its return from the cache or its call
\* of withRetry
fetchStyleIdeas(forceRefresh) ==
    IF CacheHit(forceRefresh)
    THEN /\ op' = [ pc |-> "resolved", name |-> "fetchStyleIdeas", attempt |-> 0,
                    outcomes |-> <<>>, network |-> FALSE,
                    result |-> [attempt |-> 0, data |-> CachedData(store)] ]
         /\ store' = store
    ELSE /\ op' = [ pc |-> "calling", name |-> "fetchStyleIdeas", attempt |-> 0,
                    outcomes |-> <<>> ]
         /\ store' = IF ~forceRefresh /\ store # NoEntry /\ ParseThrows(store)
                     THEN NoEntry ELSE store

\* payload of FETCH_IDEAS_SUCCESS as the reducer stores it: !styleIdeas holds
\* of null and of undefined alike
IdeasPayload(data) == IF data = Undefined THEN NullStr ELSE data

\* throttleTimeoutRef: whether the timer is pending, and when the last forced
\* refresh that passed the throttle was made
NoThrottle == [armed |-> FALSE, at |-> -1]

THROTTLE_DELAY == 1000

\* refreshStyleIdeas(force) after its throttle, from the workflow state s that
\* FETCH_IDEAS_START leaves: a cache hit resolves it at once
FetchIdeas(force, s) ==
    /\ OpFree
    /\ fetchStyleIdeas(force)
    /\ state' = IF CacheHit(force)
                THEN appReducer(s, Act("FETCH_IDEAS_SUCCESS",
                                       IdeasPayload(CachedData(store))))
                ELSE s

\* refreshStyleIdeas(force) called in any state of the workflow
StartIdeas(force) ==
    /\ FetchIdeas(force, appReducer(state, Act0("FETCH_IDEAS_START")))
    /\ UNCHANGED <<generalSuggestions, panelVars, pending, aux, uncaught, steps>>
    /\ UNCHANGED <<now, throttle, uploaders, arg, ret>>

\* the effect of the info step runs refreshStyleIdeas()
IdeasEffectRuns(call) ==
    /\ BagIn(call, pending)
    /\ call.kind = "ideas"
    /\ ~call.force
    /\ pending' = Settle(call)
    /\ FetchIdeas(FALSE, state)
    /\ UNCHANGED <<generalSuggestions, panelVars, aux, uncaught, steps>>
    /\ UNCHANGED <<now, throttle, uploaders, arg, ret>>

\* the refresh button of the trends tab: refreshStyleIdeas(true)
ForceRefreshClick ==
    /\ PromptSection
    /\ ~state.isFetchingIdeas
    /\ IF throttle.armed
       THEN /\ aux < MaxAux
            /\ aux' = aux + 1
            /\ UNCHANGED <<state, op, store, throttle>>
       ELSE /\ throttle' = [armed |-> TRUE, at |-> now]
            /\ FetchIdeas(TRUE, appReducer(state, Act0("FETCH_IDEAS_START")))
            /\ aux' = aux
    /\ UNCHANGED <<generalSuggestions, panelVars, pending, uncaught, steps>>
    /\ UNCHANGED <<now, uploaders, arg, ret>>

\* variant of ThrottleTimerFires whose timer has no delay
ThrottleTimerFires_AtOnce ==
    /\ throttle.armed
    /\ throttle' = [throttle EXCEPT !.armed = FALSE]
    /\ UNCHANGED <<state, generalSuggestions, panelVars, pending, aux, uncaught, steps>>
    /\ UNCHANGED <<op, store, now, uploaders, arg, ret>>

\* the timer of the throttle runs out
ThrottleTimerFires ==
    /\ throttle.armed
    /\ now - throttle.at >= THROTTLE_DELAY
    /\ throttle' = [throttle EXCEPT !.armed = FALSE]
    /\ UNCHANGED <<state, generalSuggestions, panelVars, pending, aux, uncaught, steps>>
    /\ UNCHANGED <<op, store, now, uploaders, arg, ret>>

\* the service answers the trend-ideas request in flight
IdeasResponds(valid, data) ==
    /\ op.pc = "calling"
    /\ op.name = "fetchStyleIdeas"
    /\ IF valid
       THEN /\ op' = [ pc |-> "resolved", name |-> op.name, attempt |-> op.attempt,
                       outcomes |-> Append(op.outcomes, "ok"),
                       network |-> TRUE,
                       result |-> [attempt |-> op.attempt + 1, data |-> data] ]
            /\ store' = CacheEntry("object", TRUE, now, TRUE, data)
            /\ state' = appReducer(state, Act("FETCH_IDEAS_SUCCESS", data))
       ELSE /\ Reject(ResponseError(op.name), Append(op.outcomes, "unusable"))
            /\ store' = store
    /\ UNCHANGED <<generalSuggestions, panelVars, pending, aux, uncaught, steps>>
    /\ UNCHANGED <<now, throttle, uploaders, arg, ret>>

\* the page is loaded again: the store of the tab and the clock stay
PageReload ==
    /\ \E share \in BOOLEAN :
          state' = appReducer(initialState, Act("SET_SHARE_SUPPORT", share))
    /\ generalSuggestions' = [p \in PersonIds |-> Null]
    /\ outfitSuggestions' = [p \in PersonIds |-> NoOutfits]
    /\ isRefreshingSuggestions' = NotRefreshing
    /\ pending' = EmptyBag
    /\ op' = IdleOp
    /\ throttle' = NoThrottle
    /\ UNCHANGED <<aux, uncaught, steps, store, now, uploaders, arg, ret>>

\* time passes
TickAmounts == {1, 999, 3599000}

Tick(d) ==
    /\ steps < MaxTicks
    /\ steps' = steps + 1
    /\ now' = now + d
    /\ UNCHANGED <<state, generalSuggestions, panelVars, pending, aux, uncaught>>
    /\ UNCHANGED <<op, store, throttle, uploaders, arg, ret>>

-----------------------------------------------------------------------------
(* ImageUploader: the worker's resizeImage *)

MAX_SIZE == 1024

\* widths and heights of the decoded bitmaps
Dimensions == {1, 2, 3, 683, 1023, 1024, 1025, 1365, 2047, 2048, 2049, 3072, 4096}

Bitmaps == [width : Dimensions, height : Dimensions]

\* variant of Round that cuts the fraction off
Round_Floor(num, den) == num \div den

\* Math.round(num / den) of a quotient that is not negative: halves go up
Round(num, den) == (2 * num + den) \div (2 * den)

\* resizeImage: width and height of the canvas for a bitmap
resizeImage(bitmap, maxSize) ==
    IF bitmap.width > bitmap.height
    THEN IF bitmap.width > maxSize
         THEN [ width |-> Round(maxSize, 1),
                height |-> Round(bitmap.height * maxSize, bitmap.width) ]
         ELSE [ width |-> Round(bitmap.width, 1), height |-> Round(bitmap.height, 1) ]
    ELSE IF bitmap.height > maxSize
         THEN [ width |-> Round(bitmap.width * maxSize, bitmap.height),
                height |-> Round(maxSize, 1) ]
         ELSE [ width |-> Round(bitmap.width, 1), height |-> Round(bitmap.height, 1) ]

\* a file is dropped on the uploader and decoded by the worker
FileDecoded(bitmap) ==
    /\ arg = Null
    /\ arg' = bitmap
    /\ UNCHANGED <<state, generalSuggestions, panelVars, pending, aux, uncaught, steps>>
    /\ UNCHANGED <<op, store, now, throttle, uploaders, ret>>

\* self.onmessage: resizeImage(file, 1024)
WorkerResizes ==
    /\ arg # Null
    /\ ret = Null
    /\ ret' = resizeImage(arg, MAX_SIZE)
    /\ UNCHANGED <<state, generalSuggestions, panelVars, pending, aux, uncaught, steps>>
    /\ UNCHANGED <<op, store, now, throttle, uploaders, arg>>

-----------------------------------------------------------------------------
(* ImageUploader *)

\* files submitted to the uploaders in one run, and in one batch
MaxFiles == 4
MaxBatch == 2

\* the uploaders of one session: of person 1 and of the style references
Slots == {"person", "reference"}

\* the worker's message for a file that it could resize and encode
Normalized(file) == [base64 |-> "file " \o ToString(file), mimeType |-> "image/webp"]

\* an uploader: the onmessage handler installed on its worker (the images,
\* count, results and counter of the processFiles call that made it), the
\* files posted to the worker, and for each processFiles call its files and
\* what came back for them
IdleUploader == [handler |-> Null, inflight |-> {}, batches |-> <<>>]

AnalyzeCall(images) == [kind |-> "analyze", images |-> images]

\* the collection that the slot's uploader shows
Collection(slot, s) ==
    IF slot = "person" THEN s.people[1].images ELSE s.styleReferenceImages

\* the slot's uploader is mounted
Rendered(slot) ==
    IF slot = "person" THEN state.appStep = "upload" ELSE PromptSection

\* handleStyleReferenceImagesChange up to its await
handleStyleReferenceImagesChange(images) ==
    /\ PromptSection
    /\ LET set == appReducer(state, Act("SET_STYLE_REFERENCE_IMAGES", images))
       IN  IF Len(images) > 0
           THEN Commit(appReducer(set, Act0("ANALYZE_STYLE_START")),
                       <<AnalyzeCall(images)>>)
           ELSE Commit(appReducer(set, Act0("CLEAR_STYLE_ANALYSIS")), <<>>)
    /\ generalSuggestions' = generalSuggestions
    /\ UNCHANGED panelVars

\* handleStyleReferenceImagesChange after its await
ResolveAnalyze(call, ok) ==
    /\ BagIn(call, pending)
    /\ call.kind = "analyze"
    /\ state' = IF ok THEN appReducer(state, Act("ANALYZE_STYLE_SUCCESS", "analysis"))
                ELSE appReducer(state, Act("ANALYZE_STYLE_ERROR", GatewayMsg("analyze")))
    /\ pending' = Settle(call)
    /\ UNCHANGED <<generalSuggestions, panelVars, aux, uncaught, steps, svcVars>>

\* onImagesChange of the slot
onImagesChange(slot, images) ==
    IF slot = "person" THEN handlePersonImagesChange(1, images)
    ELSE handleStyleReferenceImagesChange(images)

\* processFiles with n image files: a new onmessage handler replaces the
\* worker's, then each file is posted
SubmitBatch(slot, n) ==
    /\ Rendered(slot)
    /\ steps + n <= MaxFiles
    /\ LET files == (steps + 1)..(steps + n)
           u == uploaders[slot]
       IN  uploaders' =
               [ uploaders EXCEPT ![slot] =
                   [ handler |-> [ currentImages |-> Collection(slot, state),
                                   length |-> n, results |-> <<>>, processedCount |-> 0 ],
                     inflight |-> u.inflight \cup files,
                     batches |-> IF n = 0 THEN u.batches
                                 ELSE Append(u.batches, [ files |-> files, results |-> <<>>,
                                                          completed |-> 0 ]) ] ]
    /\ steps' = steps + n
    /\ UNCHANGED <<state, generalSuggestions, panelVars, pending, aux, uncaught>>
    /\ UNCHANGED <<op, store, now, throttle, arg, ret>>

\* the batches of an uploader after the worker's message for file; a batch
\* all of whose files had completed before is forgotten
Completed(batches, file, success) ==
    LET Open(batch) == batch.completed < Cardinality(batch.files)
        open == SelectSeq(batches, Open)
    IN  [ b \in DOMAIN open |->
            IF file \in open[b].files
            THEN [ open[b] EXCEPT
                     !.results = IF success THEN Append(@, Normalized(file)) ELSE @,
                     !.completed = @ + 1 ]
            ELSE open[b] ]

\* the worker's message for file arrives: the handler installed last runs
WorkerCompletes(slot, file, success) ==
    /\ Rendered(slot)
    /\ file \in uploaders[slot].inflight
    /\ LET u == uploaders[slot]
           h == u.handler
           results == IF success THEN Append(h.results, Normalized(file)) ELSE h.results
           processedCount == h.processedCount + 1
       IN  /\ uploaders' =
                 [ uploaders EXCEPT ![slot] =
                     [ handler |-> [ h EXCEPT !.results = results,
                                              !.processedCount = processedCount ],
                       inflight |-> u.inflight \ {file},
                       batches |-> Completed(u.batches, file, success) ] ]
           /\ IF processedCount = h.length /\ Len(results) > 0
              THEN onImagesChange(slot, AddImages(h.currentImages, results, MaxImages))
              ELSE UNCHANGED <<state, generalSuggestions, panelVars, pending>>
    /\ UNCHANGED <<aux, uncaught, steps>>
    /\ UNCHANGED <<op, store, now, throttle, arg, ret>>

\* handleRemoveImage of the slot's uploader, for the image at index k - 1
RemoveClick(slot, k) ==
    /\ Rendered(slot)
    /\ k \in 1..Len(Collection(slot, state))
    /\ onImagesChange(slot, RemoveImage(Collection(slot, state), k))
    /\ UNCHANGED <<aux, uncaught, steps, svcVars>>

-----------------------------------------------------------------------------
(* editImage: the request *)

\* images in one collection, at most
MaxPhotos == 2

\* the k-th image that the uploader of a person, or of the style references
\* (owner 0), emits
PhotoOf(owner, k) ==
    [ base64 |-> "photo " \o ToString(owner) \o "." \o ToString(k),
      mimeType |-> "image/webp" ]

\* images.map(image => ({ inlineData: { data, mimeType } }))
InlineParts(images) ==
    [ i \in DOMAIN images |->
        [inlineData |-> [data |-> images[i].base64, mimeType |-> images[i].mimeType]] ]

\* people.flatMap(p => p.images.map(...))
RECURSIVE portraitImageParts(_)
portraitImageParts(people) ==
    IF people = <<>> THEN <<>>
    ELSE InlineParts(Head(people).images) \o portraitImageParts(Tail(people))

\* the details array of a person: one phrase for each descriptor that is set
Details(p) ==
    LET IsSet(d) == d.value # ""
    IN  SelectSeq(<< [field |-> "bodyShape", value |-> p.bodyShape],
                     [field |-> "height", value |-> p.height],
                     [field |-> "ageRange", value |-> p.ageRange],
                     [field |-> "personalStyle", value |-> p.personalStyle] >>, IsSet)

\* the sentence about person index (0: "the person in the photo") with details
PersonaSentence(index, details) == [index |-> index, details |-> details]

NoPersona == [sentences |-> <<>>, closing |-> ""]

\* personaInfo: the sentences about the people, and the sentence that asks to
\* reflect them
personaInfo(people) ==
    IF Len(people) > 1
    THEN LET Said(sentence) == sentence.details # <<>>
             personaInfos ==
                 SelectSeq([i \in DOMAIN people |-> PersonaSentence(i, Details(people[i]))],
                           Said)
         IN  [sentences |-> personaInfos, closing |-> "reflect these details"]
    ELSE IF Details(people[1]) # <<>>
    THEN [ sentences |-> <<PersonaSentence(0, Details(people[1]))>>,
           closing |-> "reflect this detail" ]
    ELSE NoPersona

\* engineeredPrompt: the template used and what is put into it
engineeredPrompt(call) ==
    [ template |-> IF Len(call.people) > 1 THEN "two people" ELSE "one person",
      referenceImageInstruction |-> Len(call.styleReferenceImages) > 0,
      compositionInstruction |-> call.cameraComposition,
      personaInfo |-> personaInfo(call.people),
      prompt |-> call.prompt,
      negativePromptInstruction |-> Trim(call.negativePrompt) ]

\* variant of allParts with the style references before the people
allParts_ReferencesFirst(call) ==
    InlineParts(call.styleReferenceImages)
        \o portraitImageParts(call.people)
        \o <<[text |-> engineeredPrompt(call)]>>

\* allParts: the parts of the request that editImage sends for a call
allParts(call) ==
    portraitImageParts(call.people)
        \o InlineParts(call.styleReferenceImages)
        \o <<[text |-> engineeredPrompt(call)]>>

\* the request of an edit call in flight
EditRequest(call) == [model |-> "gemini-2.5-flash-image", parts |-> allParts(call)]

\* the uploader of a person emits the collection with one more image
PersonUploaderEmits(personId) ==
    /\ Len(state.people[personId].images) < MaxPhotos
    /\ PersonImagesChange(personId,
           AddImages(state.people[personId].images,
                     <<PhotoOf(personId, Len(state.people[personId].images) + 1)>>,
                     MaxImages))

\* the uploader of the style references emits the collection with one more
ReferenceUploaderEmits ==
    /\ Len(state.styleReferenceImages) < MaxPhotos
    /\ handleStyleReferenceImagesChange(
           AddImages(state.styleReferenceImages,
                     <<PhotoOf(0, Len(state.styleReferenceImages) + 1)>>, MaxImages))
    /\ UNCHANGED <<aux, uncaught, steps, svcVars>>

-----------------------------------------------------------------------------
(* The suggestion operations: validation of the parsed payload *)

\* elements of one JSON array
MaxItems == 2

\* a JSON value as the checks see it: its type, whether it is falsy ('' or 0),
\* the elements of an array, the fields of an object
JsValue(type, falsy, items, fields) ==
    [type |-> type, falsy |-> falsy, items |-> items, fields |-> fields]

Missing == JsValue("undefined", TRUE, <<>>, <<>>)
JsNull == JsValue("null", TRUE, <<>>, <<>>)
EmptyString == JsValue("string", TRUE, <<>>, <<>>)
String == JsValue("string", FALSE, <<>>, <<>>)
Number == JsValue("number", FALSE, <<>>, <<>>)
JsArray(items) == JsValue("array", FALSE, items, <<>>)
JsObject(fields) == JsValue("object", FALSE, <<>>, fields)

ArraysOf(elements) ==
    { JsArray(items) : items \in UNION { [1..n -> elements] : n \in 0..MaxItems } }

\* what the service may put in a field that should hold a list of strings
ListFieldValues ==
    {Missing, JsNull, EmptyString, String, Number, JsObject(<<>>)}
        \cup ArraysOf({String, Number})

\* the keys of the object each operation asks for
KeysOf(name) ==
    CASE name = "getGeneralSuggestions" -> {"hairstyle", "pose"}
      [] name = "getHairstyleSuggestions" -> {"hairstyle"}
      [] name = "getPoseSuggestions" -> {"pose"}
      [] name = "analyzeStyleFromImage" -> {"outfit", "hairstyle", "pose"}
      [] name = "fetchStyleIdeas" -> {"outfit", "hairstyle", "pose"}
      [] OTHER -> {}

SuggestionOperations ==
    { "getGeneralSuggestions", "getHairstyleSuggestions", "getPoseSuggestions",
      "getOutfitSuggestion", "analyzeStyleFromImage", "fetchStyleIdeas" }

\* an outfit: an object with top, bottom and shoes, or something else
OutfitItems ==
    { JsObject(fields) :
        fields \in [{"top", "bottom", "shoes"} -> {Missing, EmptyString, String, Number}] }
        \cup {JsNull, String}

\* parsed payloads of an operation
PayloadsOf(name) ==
    IF name = "getOutfitSuggestion"
    THEN {JsNull, String, JsObject(<<>>)} \cup ArraysOf(OutfitItems)
    ELSE {JsNull, String, JsArray(<<>>)}
            \cup { JsObject(fields) : fields \in [KeysOf(name) -> ListFieldValues] }

\* !value
Not(value) == value.falsy

\* Array.isArray(value)
IsArray(value) == value.type = "array"

\* typeof value !== 'object' || value === null
NotAnObject(value) == value.type \notin {"object", "array"}

\* the condition under which the operation throws its format error
Rejects(name, payload) ==
    IF name = "getOutfitSuggestion"
    THEN \/ ~IsArray(payload)
         \/ Len(payload.items) = 0
         \/ \E i \in DOMAIN payload.items :
                LET outfit == payload.items[i]
                IN  \/ NotAnObject(outfit)
                    \/ \E f \in {"top", "bottom", "shoes"} : Not(outfit.fields[f])
    ELSE IF IsArray(payload)
    THEN \* an array is an object that has none of the keys
         TRUE
    ELSE IF name = "fetchStyleIdeas"
    THEN \/ NotAnObject(payload)
         \/ \E k \in KeysOf(name) : ~IsArray(payload.fields[k])
         \/ \E i \in DOMAIN payload.fields["outfit"].items :
                payload.fields["outfit"].items[i].type # "string"
    ELSE \/ NotAnObject(payload)
         \/ \E k \in KeysOf(name) : Not(payload.fields[k])

\* what the operation delivers for a parsed payload: the payload, or the error
\* its catch block throws for the format error
Validated(name, payload) ==
    IF Rejects(name, payload)
    THEN Thrown(Rethrown(name, ResponseError(name)))
    ELSE Returned(payload)

\* the service answers the operation with a parsable payload
ServiceAnswers(name, payload) ==
    /\ arg = Null
    /\ arg' = [operation |-> name, payload |-> payload]
    /\ UNCHANGED <<state, generalSuggestions, panelVars, pending, aux, uncaught, steps>>
    /\ UNCHANGED <<op, store, now, throttle, uploaders, ret>>

\* the operation after JSON.parse
OperationValidates ==
    /\ arg # Null
    /\ ret = Null
    /\ ret' = Validated(arg.operation, arg.payload)
    /\ UNCHANGED <<state, generalSuggestions, panelVars, pending, aux, uncaught, steps>>
    /\ UNCHANGED <<op, store, now, throttle, uploaders, arg>>

-----------------------------------------------------------------------------
(* The specification *)

\* after the first render and its mount effect (SET_SHARE_SUPPORT)
Init ==
    /\ \E share \in BOOLEAN :
          state = appReducer(initialState, Act("SET_SHARE_SUPPORT", share))
    /\ generalSuggestions = [p \in PersonIds |-> Null]
    /\ outfitSuggestions = [p \in PersonIds |-> NoOutfits]
    /\ isRefreshingSuggestions = NotRefreshing
    /\ pending = EmptyBag
    /\ aux = 0
    /\ uncaught = FALSE
    /\ steps = 0
    /\ op = IdleOp
    /\ store = NoEntry
    /\ now = 0
    /\ throttle = NoThrottle
    /\ uploaders = [slot \in Slots |-> IdleUploader]
    /\ arg = Null
    /\ ret = Null

\* The whole component.
Next ==
    \/ \E n \in PersonIds : SetNumberOfPeople(n)
    \/ \E p \in PersonIds : AddPersonImage(p)
    \/ \E p \in PersonIds : RemovePersonImage(p)
    \/ GoToInfo
    \/ GoToUpload
    \/ \E p \in PersonIds : SelectPerson(p)
    \/ \E f \in InfoFields, v \in InfoValues : SetPersonInfo(f, v)
    \/ InfoSaveClick
    \/ \E c \in BagToSet(pending), ok \in BOOLEAN : ResolveGeneral(c, ok)
    \/ \E c \in BagToSet(pending), ok \in BOOLEAN : ResolveIdeas(c, ok)
    \/ ToggleCombine
    \/ \E v \in PromptInputs \cup {<<>>} : SetPrompt(v)
    \/ \E v \in NegativePromptInputs \cup {<<>>} : SetNegativePrompt(v)
    \/ \E v \in {"keep", "recompose"} : SetCameraComposition(v)
    \/ GenerateClick
    \/ \E c \in BagToSet(pending), r \in EditResults : ResolveEditSuccess(c, r)
    \/ \E c \in BagToSet(pending) : ResolveEditError(c)
    \/ handleContinueEditing
    \/ handleReturnToInfo
    \/ \E k \in 1..MaxHistory : LoadFromHistory(k)

Spec == Init /\ [][Next]_vars

\* Sessions with one person: the count stays 1; generation, history, continuing.
NextSolo ==
    \/ SetNumberOfPeople(1)
    \/ AddPersonImage(1)
    \/ RemovePersonImage(1)
    \/ GoToInfo
    \/ GoToUpload
    \/ InfoSaveClick
    \/ \E c \in BagToSet(pending), ok \in BOOLEAN : ResolveGeneral(c, ok)
    \/ \E c \in BagToSet(pending), ok \in BOOLEAN : ResolveIdeas(c, ok)
    \/ \E v \in PromptInputs \cup {<<>>} : SetPrompt(v)
    \/ \E v \in NegativePromptInputs \cup {<<>>} : SetNegativePrompt(v)
    \/ \E v \in {"keep", "recompose"} : SetCameraComposition(v)
    \/ GenerateClick
    \/ \E c \in BagToSet(pending), r \in EditResults : ResolveEditSuccess(c, r)
    \/ \E c \in BagToSet(pending) : ResolveEditError(c)
    \/ handleContinueEditing
    \/ handleReturnToInfo
    \/ \E k \in 1..MaxHistory : LoadFromHistory(k)

SpecSolo == Init /\ [][NextSolo]_vars

\* Sessions with one or two people in which no image edit succeeds.
NextPeople ==
    \/ \E n \in PersonIds : SetNumberOfPeople(n)
    \/ \E p \in PersonIds : AddPersonImage(p)
    \/ \E p \in PersonIds : RemovePersonImage(p)
    \/ GoToInfo
    \/ GoToUpload
    \/ \E p \in PersonIds : SelectPerson(p)
    \/ InfoSaveClick
    \/ \E c \in BagToSet(pending), ok \in BOOLEAN : ResolveGeneral(c, ok)
    \/ \E c \in BagToSet(pending), ok \in BOOLEAN : ResolveIdeas(c, ok)
    \/ ToggleCombine
    \/ \E v \in PromptInputs \cup {<<>>} : SetPrompt(v)
    \/ GenerateClick
    \/ \E c \in BagToSet(pending) : ResolveEditError(c)
    \/ handleReturnToInfo

SpecPeople == Init /\ [][NextPeople]_vars

-----------------------------------------------------------------------------
(* The reducer on its own: any action dispatched in any state that dispatches *)
(* reach from the initial state.                                              *)

GeneratedPhoto == [base64 |-> "gen", mimeType |-> "image/png"]

Dispatch(a) ==
    /\ steps < MaxSteps
    /\ steps' = steps + 1
    /\ state' = appReducer(state, a)
    /\ UNCHANGED <<generalSuggestions, panelVars, pending, aux, uncaught, svcVars>>

\* every action type but RESET
DispatchOther ==
    \/ Dispatch(Act0("TOGGLE_COMBINE_IN_ONE_IMAGE"))
    \/ Dispatch(Act0("SAVE_INFO_SUCCESS"))
    \/ Dispatch(Act0("FETCH_IDEAS_START"))
    \/ Dispatch(Act0("EXPAND_PROMPT_START"))
    \/ Dispatch(Act0("RETURN_TO_INFO"))
    \/ Dispatch(Act0("ANALYZE_STYLE_START"))
    \/ Dispatch(Act0("CLEAR_STYLE_ANALYSIS"))
    \/ \E n \in PersonIds : Dispatch(Act("SET_NUMBER_OF_PEOPLE", n))
    \/ \E p \in PersonIds, i \in {<<>>, <<Photo>>} :
          Dispatch(Act("SET_PERSON_IMAGES", [personId |-> p, images |-> i]))
    \/ \E i \in {<<>>, <<RefPhoto>>} : Dispatch(Act("SET_STYLE_REFERENCE_IMAGES", i))
    \/ \E v \in PromptInputs \cup {<<>>} :
          Dispatch(Act("SET_PROMPT_INFO", [field |-> "prompt", value |-> v]))
    \/ \E v \in NegativePromptInputs \cup {<<>>} :
          Dispatch(Act("SET_PROMPT_INFO", [field |-> "negativePrompt", value |-> v]))
    \/ \E p \in PersonIds, f \in InfoFields, v \in InfoValues :
          Dispatch(Act("SET_PERSON_INFO", [personId |-> p, field |-> f, value |-> v]))
    \/ \E x \in {"upload", "info", "result"} : Dispatch(Act("SET_APP_STEP", x))
    \/ \E p \in PersonIds : Dispatch(Act("SET_SELECTED_PERSON_ID", p))
    \/ Dispatch(Act("FETCH_IDEAS_SUCCESS", "ideas"))
    \/ Dispatch(Act("FETCH_IDEAS_ERROR", GatewayMsg("ideas")))
    \/ Dispatch(Act("EXPAND_PROMPT_SUCCESS", <<"p", "+">>))
    \/ Dispatch(Act("EXPAND_PROMPT_ERROR", GatewayMsg("expand")))
    \/ \E i \in {Photo, GeneratedPhoto} : Dispatch(Act("GENERATE_START", i))
    \/ \E r \in EditResults : Dispatch(Act("GENERATE_SUCCESS", r))
    \/ \E m \in {ValidationMsg, GatewayMsg("edit")} : Dispatch(Act("GENERATE_ERROR", m))
    \/ \E i \in {Photo, GeneratedPhoto} : Dispatch(Act("CONTINUE_EDITING", i))
    \/ Dispatch(Act("ANALYZE_STYLE_SUCCESS", "analysis"))
    \/ Dispatch(Act("ANALYZE_STYLE_ERROR", GatewayMsg("analysis")))
    \/ \E c \in {"keep", "recompose"} : Dispatch(Act("SET_CAMERA_COMPOSITION", c))
    \/ \E b \in BOOLEAN : Dispatch(Act("SET_SHARE_SUPPORT", b))
    \/ \E k \in DOMAIN state.generationHistory :
          Dispatch(Act("LOAD_FROM_HISTORY", state.generationHistory[k]))

NextReducer ==
    \/ Dispatch(Act0("RESET"))
    \/ DispatchOther

SpecReducer == Init /\ [][NextReducer]_vars

-----------------------------------------------------------------------------
(* Properties *)

IsSuffix(a, b) ==
    /\ Len(a) <= Len(b)
    /\ SubSeq(b, Len(b) - Len(a) + 1, Len(b)) = a

\* C1: in every reachable state the result is non-null exactly when the
\* generating status is success.
C1_ResultIffSuccess ==
    (state.result # Null) <=> (state.generatingStatus = "success")

\* the people the generation is specified to cover: every slot in use when
\* combining, else the selected person
SpecifiedGenerationSet(s) ==
    IF s.combineInOneImage THEN SubSeq(s.people, 1, s.numberOfPeople)
    ELSE <<selectedPerson(s)>>

SpecifiedInvalid(s) ==
    \/ Trim(s.prompt) = <<>>
    \/ \E i \in DOMAIN SpecifiedGenerationSet(s) :
          Len(SpecifiedGenerationSet(s)[i].images) = 0

\* C2: a click on generate with an empty trimmed prompt, or with a person of the
\* specified generation set lacking an image, ends in status error and issues
\* no edit call.
C2_InvalidGenerateRejected ==
    [][ (GenerateClick /\ SpecifiedInvalid(state))
            => (state'.generatingStatus = "error" /\ pending' = pending) ]_vars

\* C3: GENERATE_SUCCESS sets status success and result to its payload, and
\* prepends exactly one history entry when the payload has an image, none
\* otherwise.
C3_GenerateSuccess ==
    [][ \A r \in EditResults :
          Dispatch(Act("GENERATE_SUCCESS", r)) =>
            /\ state'.generatingStatus = "success"
            /\ state'.result = r
            /\ IF r.image # Null
               THEN /\ Len(state'.generationHistory) = Len(state.generationHistory) + 1
                    /\ Tail(state'.generationHistory) = state.generationHistory
                    /\ Head(state'.generationHistory).result = r
               ELSE state'.generationHistory = state.generationHistory ]_vars

\* a text-only result has arrived after two image results; the newer of the two
\* entries (made after the prompt changed) is first
C3_Witness ==
    /\ state.generatingStatus = "success"
    /\ state.result.image = Null
    /\ Len(state.generationHistory) = 2
    /\ state.generationHistory[1].prompt = <<"p">>
    /\ state.generationHistory[2].prompt = <<>>

\* C4: every transition other than RESET keeps the previous history as a
\* suffix of the new one, entries unchanged; CONTINUE_EDITING keeps it as it is.
\* (Stated by contraposition: a step that does not keep it is no such dispatch.)
C4_HistorySuffix ==
    [][ /\ ~IsSuffix(state.generationHistory, state'.generationHistory)
              => ~DispatchOther
        /\ state'.generationHistory # state.generationHistory
              => ~\E i \in {Photo, GeneratedPhoto} :
                      Dispatch(Act("CONTINUE_EDITING", i)) ]_vars

\* editing was continued from a generated image and the two earlier entries are
\* still there
C4_Witness ==
    /\ state.appStep = "info"
    /\ state.people[1].images = <<GeneratedPhoto>>
    /\ Len(state.generationHistory) = 2

\* the state CONTINUE_EDITING(image) is specified to leave, but for the prompt
AfterContinueEditing(s, image, prompt) ==
    [ initialState EXCEPT
        !.appStep = "info",
        !.people = << [initialPersonState(1) EXCEPT !.images = <<image>>],
                      initialPersonState(2) >>,
        !.prompt = prompt,
        !.generationHistory = s.generationHistory,
        !.styleIdeas = s.styleIdeas,
        !.isShareSupported = s.isShareSupported ]

C6_LoadFromHistory ==
    [][ \A k \in DOMAIN state.generationHistory :
          LoadFromHistory(k) =>
            LET e == state.generationHistory[k]
            IN  /\ state' = [ state EXCEPT
                                !.result = e.result,
                                !.originalImageForDisplay = e.originalImage,
                                !.prompt = e.prompt,
                                !.negativePrompt = e.negativePrompt,
                                !.cameraComposition = e.cameraComposition,
                                !.error = NullStr,
                                !.generatingStatus = "success" ]
                /\ pending' = pending ]_vars

\* after editing was continued from the generated image, the entry it came
\* from was loaded again
C6_Witness ==
    /\ state.appStep = "result"
    /\ state.generatingStatus = "success"
    /\ state.people[1].images = <<GeneratedPhoto>>
    /\ Len(state.generationHistory) = 1
    /\ state.result = state.generationHistory[1].result
    /\ state.prompt = state.generationHistory[1].prompt
    /\ state.error = NullStr

\* C7 as stated: while isInfoSaved is true, the selected person has general
\* suggestions from a successful fetch.
C7_SavedForSelectedPerson ==
    state.isInfoSaved => generalSuggestions[state.selectedPersonId] # Null

\* C7 amended: while isInfoSaved is true, some person (not necessarily the
\* selected one) has general suggestions from a successful fetch for that person.
C7_SavedForSomePerson ==
    state.isInfoSaved =>
        \E p \in PersonIds :
            /\ generalSuggestions[p] # Null
            /\ generalSuggestions[p].from.id = p

\* info was saved for person 1 and person 2 was selected afterwards
C7_Witness ==
    /\ state.isInfoSaved
    /\ state.selectedPersonId = 2
    /\ generalSuggestions[1] # Null
    /\ generalSuggestions[2] = Null

\* C8: the selected person is 1 or 2 and never exceeds the number of people.
C8_SelectedWithinPeople ==
    /\ state.selectedPersonId \in {1, 2}
    /\ state.selectedPersonId <= state.numberOfPeople

PersonSlotEmpty(p) ==
    /\ p.images = <<>>
    /\ p.bodyShape = ""
    /\ p.height = ""
    /\ p.ageRange = ""
    /\ p.personalStyle = ""

C10_PersonEditUnsaves ==
    [][ state'.isInfoSaved =>
          /\ ~\E i \in {<<>>, <<Photo>>} :
                Dispatch(Act("SET_PERSON_IMAGES",
                             [personId |-> state.selectedPersonId, images |-> i]))
          /\ ~\E f \in InfoFields, v \in InfoValues :
                Dispatch(Act("SET_PERSON_INFO",
                             [personId |-> state.selectedPersonId,
                              field |-> f, value |-> v])) ]_vars

\* the selected person has a photo and a descriptor, set after info was saved
C10_Witness ==
    /\ selectedPerson(state).images = <<Photo>>
    /\ selectedPerson(state).personalStyle = "v"
    /\ ~state.isInfoSaved
    /\ steps >= 3

-----------------------------------------------------------------------------
(* The gateway alone: every operation, called in turn, against a service that
   answers, answers unusably, or fails with any of ServiceErrors *)

NextGateway ==
    \/ \E name \in Operations : StartOperation(name)
    \/ \E force \in BOOLEAN : StartIdeas(force)
    \/ \E valid \in BOOLEAN : ServiceResponds(valid)
    \/ \E valid \in BOOLEAN, data \in IdeasPayloads : IdeasResponds(valid, data)
    \/ \E e \in ServiceErrors : ServiceFails(e)
    \/ BackoffElapses

SpecGateway == Init /\ [][NextGateway]_vars

RateLimitMessages == {m \in ServiceMessages : isRateLimitError(ErrorOf("Error", m))}

\* the calls the operation in flight has made to the service
CallsMade == IF op.pc = "idle" THEN 0
             ELSE IF op.pc = "calling" THEN Len(op.outcomes) + 1
             ELSE Len(op.outcomes)

\* C11: one operation of the gateway calls the service at most three times;
\* when the first two calls are rate-limited and the third answers, the
\* operation returns the answer of the third call and no error; after the
\* third call the operation has ended.
C11_AtMostThreeAttempts ==
    /\ CallsMade <= 3
    /\ op.pc = "waiting" => Len(op.outcomes) < 3
    /\ op.pc # "idle" /\ Len(op.outcomes) = 3 => op.pc \in {"resolved", "rejected"}
    /\ ( /\ op.pc # "idle"
         /\ Len(op.outcomes) = 3
         /\ op.outcomes[1] \in RateLimitMessages
         /\ op.outcomes[2] \in RateLimitMessages
         /\ op.outcomes[3] = "ok" )
       => op.pc = "resolved" /\ op.result.attempt = 3

C11_Witness ==
    /\ op.pc = "resolved"
    /\ Len(op.outcomes) = 3
    /\ op.outcomes[1] \in RateLimitMessages
    /\ op.outcomes[2] \in RateLimitMessages
    /\ op.result.attempt = 3

\* the operation in flight was rejected after a rate limit on each attempt
AllRateLimited ==
    /\ op.pc = "rejected"
    /\ Len(op.outcomes) = MaxRetries
    /\ \A i \in 1..MaxRetries : op.outcomes[i] \in RateLimitMessages

\* the message the caller's catch block has put in the workflow state
DeliveredToState(message) ==
    ErrorActionType(op.name) # "NONE" => state[ErrorField(op.name)] = message

\* C12: when all three attempts of an operation are rate-limited, the caller
\* gets the "too many requests" message, and the workflow state holds it,
\* whichever the operation.
C12_BusyMessageDelivered ==
    AllRateLimited => op.error.message = BusyMsg /\ DeliveredToState(BusyMsg)

OtherMessages == ServiceMessages \ RateLimitMessages

\* the operation in flight was rejected on an error that is no rate limit
RejectedOnOther ==
    /\ op.pc = "rejected"
    /\ op.outcomes # <<>>
    /\ op.outcomes[Len(op.outcomes)] \in OtherMessages

EditMessageFor(m) ==
    CASE m = "400 INVALID_ARGUMENT" -> BadRequestMsg
      [] m = "503 UNAVAILABLE" -> ServerMsg
      [] OTHER -> UnknownEditMsg

-----------------------------------------------------------------------------
(* One call of editImage, against a service that answers with any of
   Responses *)

NextEdit ==
    \/ op.pc = "idle" /\ StartOperation("editImage")
    \/ \E response \in Responses : EditResponds(response)
    \/ \E e \in ServiceErrors : ServiceFails(e)
    \/ BackoffElapses

SpecEdit == Init /\ [][NextEdit]_vars

\* editImage has ended on the response in arg
EditValidated ==
    /\ arg # Null
    /\ op.pc \in {"resolved", "rejected"}
    /\ op.outcomes[Len(op.outcomes)] \in {"ok", "unusable"}

EditRejectedWith(class, message) ==
    /\ op.pc = "rejected"
    /\ op.error = ErrorOf(class, message)
    /\ state.error = message

PassesFinishReason(response) ==
    /\ ~response.blockReason
    /\ response.hasCandidate
    /\ response.finishReason \in {"", "STOP"}

\* some part of the response gives a text or an image
YieldsContent(response) ==
    \E i \in DOMAIN response.parts :
        response.parts[i].text # "" \/ response.parts[i].inlineData

\* C14: editImage classifies a response by the first stage that fails, in the
\* order block reason of the prompt, missing candidate, finish reason, no
\* content parts, neither image nor text; a response that passes all stages
\* gives a result with an image or a text.
C14_FirstFailingStage ==
    EditValidated =>
        /\ arg.blockReason => EditRejectedWith("SafetyError", PromptBlockedMsg)
        /\ ~arg.blockReason /\ ~arg.hasCandidate =>
              EditRejectedWith("SafetyError", OutputBlockedMsg)
        /\ ~arg.blockReason /\ arg.hasCandidate =>
              /\ arg.finishReason = "SAFETY" =>
                    EditRejectedWith("SafetyError", OutputBlockedMsg)
              /\ arg.finishReason = "RECITATION" =>
                    EditRejectedWith("SafetyError", RecitationMsg)
              /\ arg.finishReason = "MAX_TOKENS" =>
                    EditRejectedWith("ApiError", MaxTokensMsg)
              /\ arg.finishReason \in {"OTHER", "BLOCKLIST"} =>
                    EditRejectedWith("ApiError", FinishReasonMsg(arg.finishReason))
        /\ PassesFinishReason(arg) /\ Len(arg.parts) = 0 =>
              EditRejectedWith("ApiError", NoPartsMsg)
        /\ PassesFinishReason(arg) /\ Len(arg.parts) > 0 /\ ~YieldsContent(arg) =>
              EditRejectedWith("ApiError", NoContentMsg)
        /\ PassesFinishReason(arg) /\ YieldsContent(arg) => op.pc = "resolved"
        /\ op.pc = "resolved" => op.result.image # Null \/ op.result.text # NullStr

C14_Witness ==
    /\ EditValidated
    /\ arg.blockReason
    /\ ~arg.hasCandidate
    /\ arg.finishReason = "MAX_TOKENS"
    /\ EditRejectedWith("SafetyError", PromptBlockedMsg)

-----------------------------------------------------------------------------
(* Trend ideas: one person's session up to the prompt section, the refresh
   button, reloads of the page, and the clock *)

InitStored ==
    /\ \E share \in BOOLEAN :
          state = appReducer(initialState, Act("SET_SHARE_SUPPORT", share))
    /\ generalSuggestions = [p \in PersonIds |-> Null]
    /\ outfitSuggestions = [p \in PersonIds |-> NoOutfits]
    /\ isRefreshingSuggestions = NotRefreshing
    /\ pending = EmptyBag
    /\ aux = 0
    /\ uncaught = FALSE
    /\ steps = 0
    /\ op = IdleOp
    /\ store \in StoredEntries
    /\ now = 0
    /\ throttle = NoThrottle
    /\ uploaders = [slot \in Slots |-> IdleUploader]
    /\ arg = Null
    /\ ret = Null

\* errors of the service in these sessions: a rate limit and another one
IdeasErrors == {ErrorOf("Error", "429 RESOURCE_EXHAUSTED"), ErrorOf("Error", "fetch failed")}

\* refreshStyleIdeas was called and has not read the cache yet
IdeasCallIssued == \E c \in BagToSet(pending) : c.kind = "ideas"

NextIdeas ==
    \/ AddPersonImage(1)
    \/ GoToInfo
    \/ InfoSaveClick
    \/ \E c \in BagToSet(pending), ok \in BOOLEAN : ResolveGeneral(c, ok)
    \/ \E c \in BagToSet(pending) : IdeasEffectRuns(c)
    \/ \E valid \in BOOLEAN, data \in IdeasPayloads : IdeasResponds(valid, data)
    \/ \E e \in IdeasErrors : ServiceFails(e)
    \/ BackoffElapses
    \/ ForceRefreshClick
    \/ ThrottleTimerFires
    \/ PageReload
    \/ \E d \in TickAmounts : ~IdeasCallIssued /\ Tick(d)

SpecIdeas == InitStored /\ [][NextIdeas]_vars

\* an entry as fetchStyleIdeas writes it
WellFormed(entry) ==
    /\ entry.kind = "object"
    /\ entry.hasTimestamp
    /\ entry.hasData
    /\ entry.data \in IdeasPayloads

\* C15: with the entry of a successful fetch at time t in the store, a fetch
\* that is not forced returns the stored payload without a call of the
\* service while less than one hour has passed since t, and calls the service
\* from one hour on.
C15_CacheWithinTheHour ==
    [][ \A c \in BagToSet(pending) :
          IdeasEffectRuns(c) /\ WellFormed(store) =>
              IF now - store.timestamp < 3600000
              THEN /\ op'.pc = "resolved"
                   /\ ~op'.network
                   /\ op'.result.data = store.data
                   /\ state'.styleIdeas = store.data
                   /\ store' = store
              ELSE op'.pc = "calling" ]_vars

C15_Witness ==
    /\ op.pc = "resolved"
    /\ ~op.network
    /\ op.result.data = "ideas B"
    /\ state.styleIdeas = "ideas B"
    /\ now - store.timestamp = 3599999

C17_MalformedEntryDiscarded ==
    [][ \A c \in BagToSet(pending) :
          IdeasEffectRuns(c) /\ store # NoEntry /\ ~WellFormed(store) =>
              /\ op'.pc = "calling"
              /\ store' = NoEntry ]_vars

-----------------------------------------------------------------------------
(* The worker resizing one file *)

NextResize ==
    \/ \E bitmap \in Bitmaps : FileDecoded(bitmap)
    \/ WorkerResizes

SpecResize == Init /\ [][NextResize]_vars

\* r is the integer nearest to num / den, the upper one of two
Nearest(r, num, den) ==
    /\ 2 * r * den - den <= 2 * num
    /\ 2 * num < 2 * r * den + den

\* C20: a bitmap whose longer side is at most 1024 keeps its size; otherwise
\* the longer side becomes 1024 and the shorter one the rounded
\* shorter * 1024 / longer.
C20_ResizeTarget ==
    ret # Null =>
        IF arg.width <= 1024 /\ arg.height <= 1024
        THEN ret = arg
        ELSE IF arg.width >= arg.height
        THEN ret.width = 1024 /\ Nearest(ret.height, arg.height * 1024, arg.width)
        ELSE ret.height = 1024 /\ Nearest(ret.width, arg.width * 1024, arg.height)

C20_Witness ==
    /\ arg = [width |-> 2048, height |-> 1025]
    /\ ret = [width |-> 1024, height |-> 513]

-----------------------------------------------------------------------------
(* The uploaders: one person's photos at the upload step, then the style
   references in the prompt section *)

NextUpload ==
    \/ \E slot \in Slots, n \in 0..MaxBatch : SubmitBatch(slot, n)
    \/ \E slot \in Slots, file \in 1..MaxFiles, success \in BOOLEAN :
          WorkerCompletes(slot, file, success)
    \/ \E slot \in Slots, k \in 1..MaxImages : RemoveClick(slot, k)
    \/ GoToInfo
    \/ InfoSaveClick
    \/ \E c \in BagToSet(pending) : ResolveGeneral(c, TRUE)
    \/ \E c \in BagToSet(pending) : ResolveIdeas(c, TRUE)
    \/ \E c \in BagToSet(pending), ok \in BOOLEAN : ResolveAnalyze(c, ok)

SpecUpload == Init /\ [][NextUpload]_vars

\* the batch of the slot that file belongs to
BatchOf(slot, file) ==
    LET batches == uploaders[slot].batches
    IN  batches[CHOOSE b \in DOMAIN batches : file \in batches[b].files]

\* C18: the files of a batch that normalize are added to the slot's
\* collection, after the entries it holds and cut to the capacity, in one
\* merge at the completion of the batch's last file, and a completion before
\* that changes nothing, however the completions of the batches interleave.
C18_BatchJoin ==
    [][ \A slot \in Slots, file \in 1..MaxFiles, success \in BOOLEAN :
          WorkerCompletes(slot, file, success) =>
              LET batch == BatchOf(slot, file)'
              IN  IF batch.completed = Cardinality(batch.files)
                  THEN Collection(slot, state') =
                           AddImages(Collection(slot, state), batch.results, MaxImages)
                  ELSE Collection(slot, state') = Collection(slot, state) ]_vars

\* C19: no collection holds more than five images; a merge leaves the first
\* five of the collection followed by the new images; a removal leaves the
\* collection without the image removed, the others in their order.
C19_BoundedCollection ==
    [][ /\ \A p \in PersonIds : Len(state'.people[p].images) <= 5
        /\ Len(state'.styleReferenceImages) <= 5
        /\ \A slot \in Slots, file \in 1..MaxFiles, success \in BOOLEAN :
              ( /\ WorkerCompletes(slot, file, success)
                /\ uploaders'[slot].handler.processedCount = uploaders[slot].handler.length
                /\ uploaders'[slot].handler.results # <<>> )
              => LET existing == Collection(slot, state)
                     new == uploaders'[slot].handler.results
                 IN  Collection(slot, state') =
                         SubSeq(existing \o new, 1, Min(Len(existing \o new), 5))
        /\ \A slot \in Slots, k \in 1..MaxImages :
              RemoveClick(slot, k) =>
                  LET existing == Collection(slot, state)
                      left == Collection(slot, state')
                  IN  /\ Len(left) = Len(existing) - 1
                      /\ \A i \in 1..Len(left) :
                            left[i] = IF i < k THEN existing[i] ELSE existing[i + 1] ]_vars

-----------------------------------------------------------------------------
(* Requests: one or two people with several photos each, style references,
   and generation *)

NextRequest ==
    \/ \E n \in PersonIds : SetNumberOfPeople(n)
    \/ \E p \in PersonIds : PersonUploaderEmits(p)
    \/ GoToInfo
    \/ \E p \in PersonIds : SelectPerson(p)
    \/ \E field \in InfoFields, value \in InfoValues : SetPersonInfo(field, value)
    \/ InfoSaveClick
    \/ \E c \in BagToSet(pending) : ResolveGeneral(c, TRUE)
    \/ \E c \in BagToSet(pending) : ResolveIdeas(c, TRUE)
    \/ ReferenceUploaderEmits
    \/ \E c \in BagToSet(pending) : ResolveAnalyze(c, TRUE)
    \/ ToggleCombine
    \/ \E v \in PromptInputs : SetPrompt(v)
    \/ GenerateClick
    \/ \E c \in BagToSet(pending) : ResolveEditError(c)
    \/ handleReturnToInfo

SpecRequest == Init /\ [][NextRequest]_vars

\* the edit calls that a step issues
IssuedEdits ==
    {c \in BagToSet(pending') : c.kind = "edit" /\ CopiesIn(c, pending') > CopiesIn(c, pending)}

\* parts is images, in their order, as inline data, from position from + 1
HoldsImagesAt(parts, from, images) ==
    \A i \in DOMAIN images :
        parts[from + i] = [inlineData |-> [ data |-> images[i].base64,
                                            mimeType |-> images[i].mimeType ]]

\* C21: with two people who both have images, a generation with combine
\* enabled sends all images of person 1, then all images of person 2, then
\* all style references, then the instruction; with combine disabled it
\* sends the images of the selected person only, then the style references
\* and the instruction.
C21_RequestOrder ==
    [][ ( /\ GenerateClick
          /\ state.numberOfPeople = 2
          /\ \A p \in PersonIds : Len(state.people[p].images) > 0
          /\ Trim(state.prompt) # <<>> )
        => /\ IssuedEdits # {}
           /\ \A c \in IssuedEdits :
                LET parts == EditRequest(c).parts
                    one == state.people[1].images
                    two == state.people[2].images
                    own == selectedPerson(state).images
                    refs == state.styleReferenceImages
                IN  IF state.combineInOneImage
                    THEN /\ Len(parts) = Len(one) + Len(two) + Len(refs) + 1
                         /\ HoldsImagesAt(parts, 0, one)
                         /\ HoldsImagesAt(parts, Len(one), two)
                         /\ HoldsImagesAt(parts, Len(one) + Len(two), refs)
                         /\ "text" \in DOMAIN parts[Len(parts)]
                    ELSE /\ Len(parts) = Len(own) + Len(refs) + 1
                         /\ HoldsImagesAt(parts, 0, own)
                         /\ HoldsImagesAt(parts, Len(own), refs)
                         /\ "text" \in DOMAIN parts[Len(parts)] ]_vars

C21_Witness ==
    \E c \in BagToSet(pending) :
        /\ c.kind = "edit"
        /\ state.numberOfPeople = 2
        /\ state.combineInOneImage
        /\ Len(c.people) = 2
        /\ Len(c.people[1].images) = 2
        /\ Len(c.people[2].images) = 2
        /\ Len(c.styleReferenceImages) = 1
        /\ Len(EditRequest(c).parts) = 6

\* the descriptor fields of person i of the request that the instruction names
Mentioned(people, i) ==
    LET info == personaInfo(people)
        index == IF Len(people) > 1 THEN i ELSE 0
    IN  { info.sentences[k].details[d].field :
            <<k, d>> \in { <<k, d>> \in (DOMAIN info.sentences) \X (1..4) :
                              /\ info.sentences[k].index = index
                              /\ d \in DOMAIN info.sentences[k].details } }

\* C29: the instruction of an edit request names a descriptor field (body
\* shape, height, age range, personal style) of a person exactly when that
\* field is non-empty, and when every descriptor of every person of the
\* request is empty the instruction has no persona text at all, with one
\* person and with two people in the request.
C29_PersonaOnlyWhenSet ==
    \A c \in BagToSet(pending) :
        c.kind = "edit" =>
            /\ \A i \in DOMAIN c.people :
                   Mentioned(c.people, i) = {f \in InfoFields : c.people[i][f] # ""}
            /\ (\A i \in DOMAIN c.people : \A f \in InfoFields : c.people[i][f] = "")
                   => personaInfo(c.people) = NoPersona

\* the per-field half of C29, which the code satisfies
C29_FieldPhrases ==
    \A c \in BagToSet(pending) :
        c.kind = "edit" =>
            \A i \in DOMAIN c.people :
                Mentioned(c.people, i) = {f \in InfoFields : c.people[i][f] # ""}

-----------------------------------------------------------------------------
(* A first generation: one person, every gateway call of the run succeeds *)

NextFirstRun ==
    \/ AddPersonImage(1)
    \/ GoToInfo
    \/ \E field \in InfoFields, value \in InfoValues : SetPersonInfo(field, value)
    \/ InfoSaveClick
    \/ \E c \in BagToSet(pending) : ResolveGeneral(c, TRUE)
    \/ \E c \in BagToSet(pending) : ResolveIdeas(c, TRUE)
    \/ \E v \in PromptInputs : SetPrompt(v)
    \/ \E v \in NegativePromptInputs : SetNegativePrompt(v)
    \/ \E v \in {"keep", "recompose"} : SetCameraComposition(v)
    \/ GenerateClick
    \/ \E c \in BagToSet(pending), r \in EditResults : ResolveEditSuccess(c, r)

SpecFirstRun == Init /\ [][NextFirstRun]_vars

\* the number of edit requests sent and not yet answered
EditsInFlight(calls) ==
    BagCardinality([c \in {c \in BagToSet(calls) : c.kind = "edit"} |-> calls[c]])

\* C22: in a run from the initial state (one image uploaded to person 1, info
\* step, info saved with a successful suggestion fetch, a non-empty prompt,
\* generate) the edit request is the only one sent, and when the gateway
\* answers it with an image the workflow has generatingStatus = success, a
\* result with that image and a generation history of length exactly 1.
C22_FirstGeneration ==
    [][ /\ IssuedEdits # {}
            => /\ EditsInFlight(pending) = 0
               /\ EditsInFlight(pending') = 1
               /\ state.generationHistory = <<>>
               /\ state.isInfoSaved
               /\ generalSuggestions[1] # Null
               /\ Trim(state.prompt) # <<>>
               /\ state'.generatingStatus = "generating"
        /\ \A c \in BagToSet(pending) : \A r \in EditResults :
               (r.image # Null /\ ResolveEditSuccess(c, r))
                   => /\ EditsInFlight(pending) = 1
                      /\ EditsInFlight(pending') = 0
                      /\ state'.generatingStatus = "success"
                      /\ state'.result # Null
                      /\ state'.result.image = r.image
                      /\ state'.result.image # Null
                      /\ Len(state'.generationHistory) = 1
                      /\ state'.generationHistory[1].result = r ]_vars

C22_Witness ==
    /\ state.generatingStatus = "success"
    /\ HasResultImage(state)
    /\ Len(state.generationHistory) = 1
    /\ Len(state.people[1].images) = 1
    /\ EditsInFlight(pending) = 0

-----------------------------------------------------------------------------
(* One person's session in which the gateway may fail every call *)

NextFailures ==
    \/ AddPersonImage(1)
    \/ GoToInfo
    \/ InfoSaveClick
    \/ \E c \in BagToSet(pending), ok \in BOOLEAN : ResolveGeneral(c, ok)
    \/ \E c \in BagToSet(pending), ok \in BOOLEAN : ResolveIdeas(c, ok)
    \/ \E season \in SEASONS, style \in FASHION_STYLES : StyleAccordionClick(season, style)
    \/ \E c \in BagToSet(pending) : ResolveOutfit(c, FALSE)
    \/ \E category \in {"hairstyle", "pose"} : RefreshClick(category)
    \/ \E c \in BagToSet(pending) : ResolveRefresh(c, FALSE)
    \/ ReferenceUploaderEmits
    \/ \E c \in BagToSet(pending) : ResolveAnalyze(c, FALSE)
    \/ SetPrompt(<<"p">>)
    \/ ExpandClick
    \/ \E c \in BagToSet(pending) : ResolveExpand(c, FALSE)
    \/ GenerateClick
    \/ \E c \in BagToSet(pending) : ResolveEditError(c)
    \/ handleReturnToInfo

SpecFailures == Init /\ [][NextFailures]_vars

\* the step is the failure of the call
FailureOf(c) ==
    \/ ResolveGeneral(c, FALSE)
    \/ ResolveOutfit(c, FALSE)
    \/ ResolveRefresh(c, FALSE)
    \/ ResolveAnalyze(c, FALSE)
    \/ ResolveIdeas(c, FALSE)
    \/ ResolveExpand(c, FALSE)
    \/ ResolveEditError(c)

\* the step leaves a message of the call's failure in the state the view shows
StoresMessage(c) ==
    CASE c.kind = "general" -> state'.error = GatewayMsg("general")
      [] c.kind = "ideas" -> state'.error = GatewayMsg("ideas")
      [] c.kind = "expand" -> state'.error = GatewayMsg("expand")
      [] c.kind = "edit" -> state'.error = GatewayMsg("edit")
      [] c.kind = "analyze" -> state'.styleReferenceAnalysisError = GatewayMsg("analyze")
      [] c.kind = "outfit" ->
            outfitSuggestions'[c.person.id][<<c.season, c.style>>]
                = ErrorCell(GatewayMsg("outfit"))
      [] OTHER -> state'.error # state.error /\ state'.error # NullStr

\* C23: every failed gateway call (general suggestions, outfit suggestion,
\* hairstyle refresh, pose refresh, style analysis, trend ideas, prompt
\* expansion, image edit) is followed by a state transition that stores a
\* user-readable message string.
C23_FailureStoresMessage ==
    [][ \A c \in BagToSet(pending) : FailureOf(c) => StoresMessage(c) ]_vars

\* C23 without the two refreshes, which the code satisfies
C23_OtherFailuresStoreMessage ==
    [][ \A c \in BagToSet(pending) :
            (FailureOf(c) /\ c.kind \notin {"hairstyle", "pose"}) => StoresMessage(c) ]_vars

\* the state RETURN_TO_INFO leads to
Returned_ToInfo == appReducer(state, Act0("RETURN_TO_INFO"))

\* the save button of the info step is enabled in s
CanSaveInfo(s) == s.appStep = "info" /\ Len(selectedPerson(s).images) > 0

\* the generate button of the info step is rendered and enabled in s
CanGenerate(s) ==
    /\ s.appStep = "info"
    /\ s.isInfoSaved
    /\ ~isLoading(s)
    /\ Len(activePeople(s)) # 0
    /\ s.prompt # <<>>

\* the 'return to the style description' button is rendered
ReturnButton == state.appStep = "result" /\ state.generatingStatus = "error"

\* C24: from every reachable state with generatingStatus = error the
\* RETURN_TO_INFO transition is available and leads to appStep = info,
\* generatingStatus = idle and error = null, where save-info or generate can
\* be issued again; and no gateway failure leaves the workflow without that
\* way out: while the result step shows the message of a failure and nothing
\* is being generated, a way back to the info step is on the screen.
C24_ErrorHasWayOut ==
    /\ state.generatingStatus = "error"
          => /\ ReturnButton
             /\ Returned_ToInfo.appStep = "info"
             /\ Returned_ToInfo.generatingStatus = "idle"
             /\ Returned_ToInfo.error = NullStr
             /\ CanSaveInfo(Returned_ToInfo) \/ CanGenerate(Returned_ToInfo)
    /\ (state.appStep = "result" /\ state.error # NullStr
            /\ state.generatingStatus # "generating")
          => ReturnButton \/ ResultButtons

\* the part of C24 that the code satisfies: with generatingStatus = error the
\* button is there and leads to the info step, idle, with no error
C24_ReturnAvailable ==
    state.generatingStatus = "error"
        => /\ ReturnButton
           /\ Returned_ToInfo.appStep = "info"
           /\ Returned_ToInfo.generatingStatus = "idle"
           /\ Returned_ToInfo.error = NullStr

\* the save button stays clickable while a save is in flight: the error of
\* one fetch followed by the success of another
C24_DeadEnd ==
    /\ state.appStep = "result"
    /\ state.generatingStatus = "idle"
    /\ state.error # NullStr
    /\ ~ReturnButton
    /\ ~ResultButtons

-----------------------------------------------------------------------------
(* The suggestion operations on the payloads the service may answer with *)

NextPayload ==
    \/ \E name \in SuggestionOperations :
          \E payload \in PayloadsOf(name) : ServiceAnswers(name, payload)
    \/ OperationValidates

SpecPayload == Init /\ [][NextPayload]_vars

\* value is a list of at least min strings
ListOfStrings(value, min) ==
    /\ IsArray(value)
    /\ Len(value.items) >= min
    /\ \A i \in DOMAIN value.items : value.items[i].type = "string"

\* the payload has the shape the operation's schema asks for
WellShaped(name, payload) ==
    IF name = "getOutfitSuggestion"
    THEN /\ IsArray(payload)
         /\ Len(payload.items) >= 1
         /\ \A i \in DOMAIN payload.items :
                /\ payload.items[i].type = "object"
                /\ \A f \in {"top", "bottom", "shoes"} :
                       payload.items[i].fields[f].type = "string"
    ELSE /\ payload.type = "object"
         /\ \A k \in KeysOf(name) : ListOfStrings(payload.fields[k], 0)

\* the errors an operation delivers when the service call itself fails
TransportErrors(name) ==
    { Rethrown(name, e) : e \in ServiceErrors } \cup {Rethrown(name, ErrorOf("ApiError", BusyMsg))}

\* C25: for every suggestion operation (general, hairstyle, pose, outfit,
\* style analysis, trend ideas) a parsed payload that misses a required key,
\* holds a value of the wrong type in a list field or in its elements, or an
\* empty array where at least one item is required, is never returned: the
\* operation fails with a malformed-response error that differs from the
\* errors of a failed transport.
C25_MalformedNeverReturned ==
    (ret # Null /\ ~WellShaped(arg.operation, arg.payload))
        => /\ ~ret.ok
           /\ ret.error \notin TransportErrors(arg.operation)

\* the part of C25 every operation satisfies: a payload that is no object, or
\* misses a key, or holds null in a key, is rejected
C25_MissingKeyRejected ==
    (ret # Null /\ arg.payload.type = "object"
        /\ \E k \in KeysOf(arg.operation) : arg.payload.fields[k] \in {Missing, JsNull})
        => ~ret.ok

-----------------------------------------------------------------------------
(* Outfit suggestions of one or two people, fetched side by side *)

NextOutfit ==
    \/ SetNumberOfPeople(2)
    \/ \E p \in PersonIds : AddPersonImage(p)
    \/ GoToInfo
    \/ \E p \in PersonIds : SelectPerson(p)
    \/ InfoSaveClick
    \/ \E c \in BagToSet(pending) : ResolveGeneral(c, TRUE)
    \/ \E c \in BagToSet(pending) : ResolveIdeas(c, TRUE)
    \/ \E season \in SEASONS, style \in FASHION_STYLES : StyleAccordionClick(season, style)
    \/ \E c \in BagToSet(pending), ok \in BOOLEAN : ResolveOutfit(c, ok)

SpecOutfit == Init /\ [][NextOutfit]_vars

\* the outfit fetches in flight
OutfitCalls(calls) == {c \in BagToSet(calls) : c.kind = "outfit"}

\* the (person, season, style) key of an outfit fetch
KeyOf(c) == <<c.person.id, c.season, c.style>>

\* the fetches in flight have pairwise distinct keys
DistinctKeys ==
    /\ \A c \in OutfitCalls(pending) : CopiesIn(c, pending) = 1
    /\ \A c, d \in OutfitCalls(pending) : KeyOf(c) = KeyOf(d) => c = d

\* C26: outfit fetches in flight together with pairwise distinct (person,
\* season, style) keys, resolved in any order: each resolution writes the
\* result or the error of its own fetch into its own cell and changes no
\* other cell, so that once all have resolved every cell holds what its own
\* fetch brought.
C26_CellsKeepTheirOwn ==
    [][ \A c \in OutfitCalls(pending), ok \in BOOLEAN :
          (DistinctKeys /\ ResolveOutfit(c, ok))
              => /\ outfitSuggestions'[c.person.id][<<c.season, c.style>>]
                        = IF ok THEN OutfitsCell(c) ELSE ErrorCell(GatewayMsg("outfit"))
                 /\ \A p \in PersonIds, key \in OutfitKeys :
                        <<p, key[1], key[2]>> # KeyOf(c)
                            => outfitSuggestions'[p][key] = outfitSuggestions[p][key]
                 /\ \A d \in OutfitCalls(pending') :
                        outfitSuggestions'[d.person.id][<<d.season, d.style>>] = LoadingCell
                 /\ OutfitCalls(pending') = {}
                        => \A p \in PersonIds, key \in OutfitKeys :
                              LET cell == outfitSuggestions'[p][key]
                              IN  /\ cell # LoadingCell
                                  /\ cell.status = "outfits" =>
                                         KeyOf(cell.of) = <<p, key[1], key[2]>> ]_vars

\* every fetch has resolved: outfits of person 1, outfits of person 2 and an
\* error of person 2 stand next to each other
C26_Witness ==
    /\ OutfitCalls(pending) = {}
    /\ \E key \in OutfitKeys : outfitSuggestions[1][key].status = "outfits"
    /\ \E key \in OutfitKeys : outfitSuggestions[2][key].status = "error"
    /\ \E key \in OutfitKeys : outfitSuggestions[2][key].status = "outfits"

-----------------------------------------------------------------------------
(* Suggestion fetches in flight while the photos or the selection change *)

NextStale ==
    \/ \E n \in PersonIds : SetNumberOfPeople(n)
    \/ \E p \in PersonIds : AddPersonImage(p)
    \/ \E p \in PersonIds : RemovePersonImage(p)
    \/ GoToInfo
    \/ GoToUpload
    \/ \E p \in PersonIds : SelectPerson(p)
    \/ InfoSaveClick
    \/ \E c \in BagToSet(pending) : ResolveGeneral(c, TRUE)
    \/ \E c \in BagToSet(pending) : ResolveIdeas(c, TRUE)
    \/ \E season \in SEASONS, style \in FASHION_STYLES : StyleAccordionClick(season, style)
    \/ \E c \in BagToSet(pending) : ResolveOutfit(c, TRUE)
    \/ RefreshClick("hairstyle")
    \/ \E c \in BagToSet(pending) : ResolveRefresh(c, TRUE)

SpecStale == Init /\ [][NextStale]_vars

\* the suggestion fetches in flight: general, hairstyle, pose and outfit
SuggestionCalls(calls) ==
    {c \in BagToSet(calls) : c.kind \in {"general", "hairstyle", "pose", "outfit"}}

\* the step changes the photos of some person or the selected person
ContextChanges ==
    \/ \E p \in PersonIds : state'.people[p].images # state.people[p].images
    \/ state'.selectedPersonId # state.selectedPersonId

\* C27: a suggestion fetch in flight for a person is not cancelled by a later
\* change of that person's images or of the selection, and its resolution
\* writes into the entry of the person id captured when the call was issued,
\* whatever the person holds by then; a state in which a person's entry holds
\* a suggestion computed from images the person no longer has is reachable.
C27_StaleWrite ==
    [][ /\ ContextChanges
            => \A c \in SuggestionCalls(pending) : CopiesIn(c, pending') = CopiesIn(c, pending)
        /\ \A c \in SuggestionCalls(pending) :
              /\ ResolveGeneral(c, TRUE)
                    => generalSuggestions'[c.person.id] = [from |-> c.person]
              /\ ResolveRefresh(c, TRUE)
                    => generalSuggestions'[c.person.id][c.kind] = c.person
              /\ ResolveOutfit(c, TRUE)
                    => outfitSuggestions'[c.person.id][<<c.season, c.style>>] = OutfitsCell(c) ]_vars

\* person 1's general suggestions were computed from photos that person 1
\* does not have any more
C27_Witness ==
    /\ generalSuggestions[1] # Null
    /\ "from" \in DOMAIN generalSuggestions[1]
    /\ generalSuggestions[1].from.images # state.people[1].images
    /\ generalSuggestions[1].from.images # <<>>

\* the same for an outfit cell
C27_StaleOutfit ==
    \E key \in OutfitKeys :
        /\ outfitSuggestions[1][key].status = "outfits"
        /\ outfitSuggestions[1][key].of.person.images # state.people[1].images

\* the calls the step sends to the gateway
IssuedCalls ==
    {c \in BagToSet(pending') : CopiesIn(c, pending') > CopiesIn(c, pending)}

\* the loading flag of the user action behind a call of this kind; save info
\* has no flag of its own, any of the flags counts for it
LoadingFlag(kind, s) ==
    CASE kind = "ideas" -> s.isFetchingIdeas
      [] kind = "analyze" -> s.isAnalyzingStyle
      [] kind = "expand" -> s.isExpandingPrompt
      [] kind = "edit" -> s.generatingStatus = "generating"
      [] kind = "general" -> isLoading(s)
      [] OTHER -> TRUE

\* C28: for every gateway-backed user action (save info, trend-ideas fetch,
\* style analysis, prompt expansion, generate) a start transition that sets a
\* loading flag comes before the success or error transition of that action:
\* the step that sends the call leaves the flag set; and the call is answered
\* by one success or error transition, which takes it out of the calls in
\* flight.
C28_StartSetsLoadingFlag ==
    [][ /\ \A c \in IssuedCalls :
               c.kind \in {"general", "ideas", "analyze", "expand", "edit"}
                   => LoadingFlag(c.kind, state')
        /\ \A c \in BagToSet(pending) :
               FailureOf(c) => CopiesIn(c, pending') = CopiesIn(c, pending) - 1 ]_vars

\* C28 for the four actions other than save info, which the code satisfies
C28_OtherStartsSetFlag ==
    [][ \A c \in IssuedCalls :
            c.kind \in {"ideas", "analyze", "expand", "edit"}
                => LoadingFlag(c.kind, state') ]_vars

-----------------------------------------------------------------------------
(* Continue editing from a generated image *)

\* results whose data URI editImage built from an inlineData part with an empty
\* mimeType (`data:;base64,gen`) or with empty data (`data:image/png;base64,`)
MalformedResults ==
    { [image |-> DataUri("", "gen"), text |-> NullStr],
      [image |-> DataUri("image/png", ""), text |-> NullStr] }

NextContinue ==
    \/ AddPersonImage(1)
    \/ GoToInfo
    \/ InfoSaveClick
    \/ \E c \in BagToSet(pending) : ResolveGeneral(c, TRUE)
    \/ \E c \in BagToSet(pending) : ResolveIdeas(c, TRUE)
    \/ \E v \in PromptInputs : SetPrompt(v)
    \/ GenerateClick
    \/ \E c \in BagToSet(pending), r \in EditResults \cup MalformedResults :
           ResolveEditSuccess(c, r)
    \/ handleContinueEditing
    \/ handleReturnToInfo
    \/ \E k \in 1..MaxHistory : LoadFromHistory(k)

SpecContinue == Init /\ [][NextContinue]_vars

\* split(',') leaves no payload, or /:(.*?);/ finds no MIME type in the header
Unparsable(uri) == uri.data = "" \/ uri.mime = ""

\* C30: when the data URI of the generated image cannot be split into a header
\* and a payload, or its header holds no MIME type, continue-editing makes the
\* error transition (generatingStatus = error, the format message), makes no
\* CONTINUE_EDITING transition (the workflow stays on the result step with its
\* result and its prompt), sends no gateway call, and leaves people and
\* generationHistory as they were.
C30_UnparsableImage ==
    [][ (handleContinueEditing /\ Unparsable(state.result.image))
            => /\ state'.generatingStatus = "error"
               /\ state'.error = FormatMsg
               /\ state' = appReducer(state, Act("GENERATE_ERROR", FormatMsg))
               /\ state'.appStep = "result"
               /\ state'.result = state.result
               /\ pending' = pending
               /\ state'.people = state.people
               /\ state'.generationHistory = state.generationHistory
               /\ generalSuggestions' = generalSuggestions ]_vars

\* continue-editing has refused an unparsable image: the format error is shown
\* over the result that was kept, and the photos of person 1 are still there
C30_Witness ==
    /\ state.generatingStatus = "error"
    /\ state.error = FormatMsg
    /\ HasResultImage(state)
    /\ Unparsable(state.result.image)
    /\ state.people[1].images # <<>>
    /\ state.generationHistory # <<>>

\* the other branch: a parsable image starts a new session from that image
C30_ParsableContinues ==
    [][ (handleContinueEditing /\ ~Unparsable(state.result.image))
            => /\ state'.appStep = "info"
               /\ state'.people[1].images = <<ParseDataUri(state.result.image)>>
               /\ state'.generationHistory = state.generationHistory ]_vars

-----------------------------------------------------------------------------
(* Algebra of the reducer *)

\* the state after LOAD_FROM_HISTORY with entry e was dispatched in s
Loaded(s, e) == appReducer(s, Act("LOAD_FROM_HISTORY", e))

\* C31: for every state s and history entry e, dispatching LOAD_FROM_HISTORY
\* with e twice gives the same state as dispatching it once.
C31_LoadIdempotent ==
    \A k \in DOMAIN state.generationHistory :
        LET e == state.generationHistory[k]
        IN  Loaded(Loaded(state, e), e) = Loaded(state, e)

\* a state that loading an entry changes: an error is shown, and the prompt is
\* no longer the prompt of the entry
C31_Witness ==
    /\ state.generationHistory # <<>>
    /\ state.generatingStatus = "error"
    /\ state.error # NullStr
    /\ state.prompt # state.generationHistory[1].prompt
    /\ Loaded(state, state.generationHistory[1]) # state

-----------------------------------------------------------------------------
(* Backoff of the gateway *)

\* C32: between consecutive attempts of one gateway operation, the wait before
\* attempt n+1 (n = 1, 2) is at least 1000 * 2^(n-1) ms and less than
\* 1000 * 2^(n-1) + 1000 ms; no wait happens after the third failed attempt
\* or after a failure that is not a rate limit.
C32_BackoffWindow ==
    op.pc = "waiting" =>
        LET n == Len(op.outcomes)
        IN  /\ n \in {1, 2}
            /\ op.attempt = n - 1
            /\ op.delay >= 1000 * 2^(n - 1)
            /\ op.delay < 1000 * 2^(n - 1) + 1000
            /\ op.outcomes[n] \in RateLimitMessages

\* the operation waits before its third attempt
C32_Witness ==
    /\ op.pc = "waiting"
    /\ Len(op.outcomes) = 2
    /\ op.delay > 2000

\* a failed attempt is followed by a wait only when it was rate-limited and
\* was not the third
C32_NoWaitOtherwise ==
    [][ \A e \in ServiceErrors :
            (ServiceFails(e) /\ (~isRateLimitError(e) \/ Len(op.outcomes) = 2))
                => op'.pc = "rejected" ]_vars

-----------------------------------------------------------------------------
(* Transitions made while a generation is in flight *)

\* C33: at most one image-edit request is in flight at any time: no generate
\* can be started while an earlier edit request is unresolved, whatever the
\* user does during the generation (history gallery, return to info).
C33_OneEditInFlight == EditsInFlight(pending) <= 1

\* C34: every history entry appended by GENERATE_SUCCESS records the prompt,
\* negativePrompt, cameraComposition and original image that were sent in the
\* edit request that produced its result, whatever transitions (history
\* gallery, return to info, prompt edits, a failing suggestion fetch) happen
\* between GENERATE_START and GENERATE_SUCCESS.
C34_EntryRecordsRequest ==
    [][ \A c \in BagToSet(pending) : \A r \in EditResults :
            (ResolveEditSuccess(c, r) /\ r.image # Null)
                => LET entry == state'.generationHistory[1]
                   IN  /\ entry.result = r
                       /\ entry.prompt = c.prompt
                       /\ entry.negativePrompt = c.negativePrompt
                       /\ entry.cameraComposition = c.cameraComposition
                       /\ entry.originalImage = c.people[1].images[1] ]_vars

\* C34 when nothing was dispatched between the start and the answer
C34_UndisturbedEntry ==
    [][ \A c \in BagToSet(pending) : \A r \in EditResults :
            ( /\ ResolveEditSuccess(c, r)
              /\ r.image # Null
              /\ state.generatingStatus = "generating"
              /\ state.prompt = c.prompt
              /\ state.negativePrompt = c.negativePrompt
              /\ state.cameraComposition = c.cameraComposition
              /\ state.originalImageForDisplay = c.people[1].images[1] )
                => LET entry == state'.generationHistory[1]
                   IN  /\ entry.result = r
                       /\ entry.prompt = c.prompt
                       /\ entry.negativePrompt = c.negativePrompt
                       /\ entry.cameraComposition = c.cameraComposition
                       /\ entry.originalImage = c.people[1].images[1] ]_vars

\* C35: in every reachable state with generatingStatus = success, error is
\* null, so a successful result is never displayed as an error; also when a
\* trend-ideas, prompt-expansion or general-suggestion fetch fails while a
\* generation is in flight.
C35_SuccessHasNoError ==
    state.generatingStatus = "success" => state.error = NullStr

\* C35 in the step that answers a generation during which no other call of
\* the session was pending and no error was stored
C35_UndisturbedSuccess ==
    [][ \A c \in BagToSet(pending) : \A r \in EditResults :
            ( /\ ResolveEditSuccess(c, r)
              /\ state.generatingStatus = "generating"
              /\ state.error = NullStr )
                => state'.generatingStatus = "success" /\ state'.error = NullStr ]_vars

-----------------------------------------------------------------------------
(* Edits made while a save-info fetch is in flight *)

\* the person of call has been edited (images or info fields) since the call
\* was issued
EditedSince(call) == state.people[call.person.id] # call.person

\* C36: if the selected person's images or info fields are edited while a
\* save-info suggestion fetch is in flight, then after that fetch resolves
\* isInfoSaved is still false, and it stays false until a save-info issued
\* after the edit succeeds: the answer to a fetch issued before the edit does
\* not set isInfoSaved.
C36_StaleSaveKeepsUnsaved ==
    [][ \A c \in BagToSet(pending) : \A ok \in BOOLEAN :
            (ResolveGeneral(c, ok) /\ EditedSince(c) /\ ~state.isInfoSaved)
                => ~state'.isInfoSaved ]_vars

\* C36 for the answers to fetches issued for the person as it is now: these,
\* and only successful ones, set isInfoSaved
C36_CurrentSaveSaves ==
    [][ \A c \in BagToSet(pending) : \A ok \in BOOLEAN :
            (ResolveGeneral(c, ok) /\ ~EditedSince(c))
                => (state'.isInfoSaved <=> (ok \/ state.isInfoSaved)) ]_vars

-----------------------------------------------------------------------------
(* Overlapping trend-ideas fetches *)

\* the trend-ideas fetches sent and not yet answered
IdeasInFlight(calls) ==
    BagCardinality([c \in {c \in BagToSet(calls) : c.kind = "ideas"} |-> calls[c]])

\* C37: isFetchingIdeas is true in every state in which at least one
\* trend-ideas fetch is unresolved, also when a second fetch is started (by
\* entering the info step again, or by a forced refresh) before the first has
\* resolved.
C37_FetchingWhileUnresolved ==
    IdeasInFlight(pending) >= 1 => state.isFetchingIdeas

\* C37 in sessions that enter the info step once: one fetch in flight at most
C37_SingleFetch ==
    IdeasInFlight(pending) = 1 => state.isFetchingIdeas

\* two trend-ideas fetches are unresolved
C37_Overlap == IdeasInFlight(pending) = 2

-----------------------------------------------------------------------------
(* Overlapping style analyses *)

AnalysesInFlight == {c \in BagToSet(pending) : c.kind = "analyze"}

\* C38: in every reachable state where styleReferenceAnalysis is non-null
\* and no analysis is in flight, it was computed from the current
\* styleReferenceImages; in particular it is null whenever
\* styleReferenceImages is empty, in whatever order overlapping analysis calls
\* resolve.
C38_AnalysisOfCurrentImages ==
    (AnalysesInFlight = {} /\ state.styleReferenceImages = <<>>)
        => state.styleReferenceAnalysis = NullStr

-----------------------------------------------------------------------------
(* Removal during the normalization of a batch *)

\* the images of a collection
ImagesOf(collection) == {collection[i] : i \in DOMAIN collection}

\* C39: an image removed from a slot while a batch of files for that slot is
\* still being normalized is not in the collection after the batch merges:
\* the merge appends to the collection as it is at merge time, not as it was
\* when the batch was submitted.
C39_MergeKeepsRemoval ==
    [][ \A slot \in Slots, file \in 1..MaxFiles, success \in BOOLEAN :
          ( /\ WorkerCompletes(slot, file, success)
            /\ uploaders'[slot].handler.processedCount = uploaders[slot].handler.length
            /\ uploaders'[slot].handler.results # <<>> )
          => /\ ImagesOf(Collection(slot, state'))
                    \subseteq ImagesOf(Collection(slot, state))
                                  \cup ImagesOf(uploaders'[slot].handler.results)
             /\ Collection(slot, state') =
                    AddImages(Collection(slot, state),
                              uploaders'[slot].handler.results, MaxImages) ]_vars

\* C39 for the merges of batches during which the collection did not change
C39_UndisturbedMerge ==
    [][ \A slot \in Slots, file \in 1..MaxFiles, success \in BOOLEAN :
          ( /\ WorkerCompletes(slot, file, success)
            /\ uploaders'[slot].handler.processedCount = uploaders[slot].handler.length
            /\ uploaders'[slot].handler.results # <<>>
            /\ uploaders[slot].handler.currentImages = Collection(slot, state) )
          => Collection(slot, state') =
                 AddImages(Collection(slot, state),
                           uploaders'[slot].handler.results, MaxImages) ]_vars

-----------------------------------------------------------------------------
(* The raster surface of the normalizer *)

\* C40: for every source size (w, h) with w, h >= 1, both target dimensions
\* the normalizer computes are at least 1, so the raster surface it creates
\* is never empty.
C40_SurfaceNotEmpty ==
    ret # Null => ret.width >= 1 /\ ret.height >= 1

\* C40 for the sources whose longer side is at most 2048 times the shorter
C40_ModerateAspect ==
    (ret # Null /\ arg.width <= 2048 * arg.height /\ arg.height <= 2048 * arg.width)
        => ret.width >= 1 /\ ret.height >= 1

====
